---- MODULE Spec2Model ----
(***************************************************************************)
(* Community Pulse Bot: the metrics aggregation and scoring engine.        *)
(*                                                                         *)
(* Every public operation of the analyzers is a request: it reads the      *)
(* StatsProvider, computes, and hands a value (or an exception) to its     *)
(* caller, who discards it.  The analyzers keep no state of their own, so  *)
(* the state of the model is the request in flight: which operation, the   *)
(* arguments and provider responses it was given, and what came back.      *)
(* The bot process around them adds the messages table, the requests that  *)
(* are served concurrently and the background aggregation tasks.           *)
(*                                                                         *)
(* Numbers.  Python floats are modelled as exact rationals <<n, d>> with   *)
(* d > 0.  The inputs are chosen so that every quantity the model compares *)
(* with a threshold is either exactly representable in binary or separated *)
(* from the threshold by far more than a rounding error.                   *)
(***************************************************************************)
EXTENDS Integers, Sequences, FiniteSets, TLC

VARIABLES pc, op, args, locals, ret, prev,
          messages_table, tasks, frames, loops, bot

(* The bot process: the messages table, the report requests in flight with *)
(* the local variables of their coroutines, the aggregation tasks and the  *)
(* connection.                                                             *)
process == <<messages_table, tasks, frames, loops, bot>>

vars == <<pc, op, args, locals, ret, prev, process>>

(***************************************************************************)
(* Bounds of the model.                                                    *)
(***************************************************************************)
MaxDays == 3
MaxExtraMessages == 5

(* Message counts reach past the confidence target of the longest window. *)
MessageCounts == 0..(10 * MaxDays + MaxExtraMessages)

(* Window lengths a caller may pass, the malformed ones (<= 0) included. *)
DaysArgs == -1..MaxDays

NoCall == [op |-> "none"]

(***************************************************************************)
(* Rational arithmetic standing for Python's float arithmetic.             *)
(***************************************************************************)
Rat(n, d) == IF d < 0 THEN <<-n, -d>> ELSE <<n, d>>

RLess(a, b) == a[1] * b[2] < b[1] * a[2]

RLeq(a, b) == a[1] * b[2] <= b[1] * a[2]

REq(a, b) == a[1] * b[2] = b[1] * a[2]

RMin(a, b) == IF RLess(b, a) THEN b ELSE a

RMax(a, b) == IF RLess(a, b) THEN b ELSE a

RECURSIVE Gcd(_, _)
Gcd(a, b) == IF b = 0 THEN a ELSE Gcd(b, a % b)

Abs(n) == IF n < 0 THEN -n ELSE n

(* The same number in lowest terms, so that intermediate products stay small. *)
Norm(a) ==
    LET g == Gcd(Abs(a[1]), a[2])
    IN  IF g = 0 THEN <<0, 1>> ELSE <<a[1] \div g, a[2] \div g>>

RAdd(a, b) == Norm(<<a[1] * b[2] + b[1] * a[2], a[2] * b[2]>>)

RMul(a, b) == Norm(<<a[1] * b[1], a[2] * b[2]>>)

RInt(n) == <<n, 1>>

(* Python's round(x): to the nearest integer, a tie to the even one. *)
Round(a) ==
    LET q == a[1] \div a[2]
        r == a[1] % a[2]
    IN  IF 2 * r < a[2] THEN q
        ELSE IF 2 * r > a[2] THEN q + 1
        ELSE IF q % 2 = 0 THEN q ELSE q + 1

Raise(e) == [outcome |-> "raise", exc |-> e]

Return(v) == [outcome |-> "return", value |-> v]

(***************************************************************************)
(* HealthAnalyzer._calculate_confidence: min(1.0, message_count / (days *  *)
(* 10)).  A zero target divides by zero; a negative one is not rejected.   *)
(***************************************************************************)
calculate_confidence_unclamped(message_count, days) ==
    LET target_messages == days * 10
    IN  IF target_messages = 0
        THEN Raise("ZeroDivisionError")
        ELSE Return(Rat(message_count, target_messages))

calculate_confidence(message_count, days) ==
    LET target_messages == days * 10
    IN  IF target_messages = 0
        THEN Raise("ZeroDivisionError")
        ELSE Return(RMin(<<1, 1>>, Rat(message_count, target_messages)))

(***************************************************************************)
(* Small sequence helpers.                                                 *)
(***************************************************************************)
Take(s, n) == IF Len(s) <= n THEN s ELSE SubSeq(s, 1, n)

LastN(s, n) == IF Len(s) <= n THEN s ELSE SubSeq(s, Len(s) - n + 1, Len(s))

(***************************************************************************)
(* src/health_analyzer.py, HealthAnalyzer.get_pulse.  Five provider        *)
(* queries in order, none guarded: the first that fails ends the call with *)
(* its exception.  Then the confidence of the sample, whose division by    *)
(* days * 10 is not guarded either.                                        *)
(***************************************************************************)
get_pulse(days, db, fail) ==
    IF fail \in 1..5
    THEN Raise("ProviderError")
    ELSE
      LET total_messages == db.message_count
          active_members == db.active_users
          total_members == active_members
          c == calculate_confidence(total_messages, days)
      IN  IF c.outcome = "raise"
          THEN c
          ELSE
            LET confidence == c.value
                low_confidence == RLess(confidence, <<1, 2>>)
                confidence_warning ==
                    IF low_confidence
                    THEN IF total_messages < 50 THEN "very_limited" ELSE "limited"
                    ELSE "None"
            IN  Return([total_messages |-> total_messages,
                        active_members |-> active_members,
                        total_members |-> total_members,
                        trend |-> db.activity_trend,
                        peak_hours |-> db.peak_hours,
                        quiet_channels |-> db.quiet_channels,
                        days_analyzed |-> days,
                        confidence |-> confidence,
                        low_confidence |-> low_confidence,
                        confidence_warning |-> confidence_warning])

(***************************************************************************)
(* src/analytics/health_analyzer.py, HealthAnalyzer.get_pulse: the variant *)
(* bot.py imports.  The previous period is a stub, the low-confidence flag *)
(* is a fixed count of 10 messages whatever the window, and any exception  *)
(* is swallowed into a default value.                                      *)
(***************************************************************************)
(* A previous period that had as many messages as the window has days. *)
get_previous_period_stats_counted(days) == [total_messages |-> days]

get_previous_period_stats(days) == [total_messages |-> 0]

analytics_get_pulse(days, db, fail) ==
    IF fail \in 1..2
    THEN Return([trend |-> <<0, 1>>,
                 active_members |-> 0,
                 total_members |-> 0,
                 total_messages |-> 0,
                 peak_hours |-> <<>>,
                 quiet_channels |-> <<>>,
                 low_confidence |-> TRUE,
                 confidence_warning |-> "Error retrieving data"])
    ELSE
      LET current_stats == db.message_stats
          previous_stats == get_previous_period_stats(days)
          current_messages == current_stats.total_messages
          previous_messages == previous_stats.total_messages
          trend == IF previous_messages > 0
                   THEN Rat((current_messages - previous_messages) * 100,
                            previous_messages)
                   ELSE <<0, 1>>
          top == Take(current_stats.hourly_data, 3)
          peak_hours == [i \in 1..Len(top) |-> top[i][1]]
          tail == LastN(db.channel_stats, 3)
          quiet_channels == [i \in 1..Len(tail) |-> tail[i].channel_id]
      IN  Return([trend |-> trend,
                  active_members |-> current_stats.active_users,
                  total_members |-> current_stats.active_users,
                  total_messages |-> current_messages,
                  peak_hours |-> peak_hours,
                  quiet_channels |-> quiet_channels,
                  low_confidence |-> current_messages < 10,
                  confidence_warning |->
                      IF current_messages < 10
                      THEN "Limited data available" ELSE "None"])

(***************************************************************************)
(* math.log2 on the arguments where it is exact: log2(2^k) = k.  The       *)
(* channel distributions of the model have power-of-two shares, so the     *)
(* entropy is an exact rational and Python's float evaluation of it is     *)
(* exact as well.                                                          *)
(***************************************************************************)
RECURSIVE IsPow2(_)
IsPow2(n) == n = 1 \/ (n > 1 /\ n % 2 = 0 /\ IsPow2(n \div 2))

RECURSIVE Log2(_)
Log2(n) == IF n <= 1 THEN 0 ELSE 1 + Log2(n \div 2)

RECURSIVE SumCounts(_)
SumCounts(chs) ==
    IF chs = <<>> THEN 0 ELSE Head(chs).message_count + SumCounts(Tail(chs))

(* entropy -= p * log2(p), over the channels with messages, p = count/total: *)
(* each term is count * (log2(total) - log2(count)) / total, summed here     *)
(* over the common denominator total.                                        *)
RECURSIVE EntropyNumerator(_, _)
EntropyNumerator(chs, total_msgs) ==
    IF chs = <<>> THEN 0
    ELSE (IF Head(chs).message_count > 0
          THEN Head(chs).message_count
               * (Log2(total_msgs) - Log2(Head(chs).message_count))
          ELSE 0)
         + EntropyNumerator(Tail(chs), total_msgs)

Entropy(chs, total_msgs) ==
    IF total_msgs = 0 THEN <<0, 1>>
    ELSE Norm(<<EntropyNumerator(chs, total_msgs), total_msgs>>)

(* The inputs on which Log2 above is math.log2. *)
ExactEntropy(chs) ==
    LET total_msgs == SumCounts(chs)
    IN  \/ total_msgs = 0
        \/ /\ IsPow2(total_msgs)
           /\ \A i \in 1..Len(chs) :
                 chs[i].message_count = 0 \/ IsPow2(chs[i].message_count)
           /\ \/ IsPow2(Len(chs))
              \/ \E i \in 1..Len(chs) : chs[i].message_count = total_msgs

(***************************************************************************)
(* src/health_analyzer.py, HealthAnalyzer.calculate_health_score: the four *)
(* component scores, as the floats the code holds before rounding.         *)
(***************************************************************************)
ActivityScore(messages_30d, active_users_30d) ==
    IF active_users_30d > 0
    THEN RMin(RInt(100),
              RMul(Rat(messages_30d, active_users_30d * 30), RInt(20)))
    ELSE RInt(0)

(* Growth from a baseline of 25 in place of the neutral 50. *)
GrowthScore_low_baseline(trend, retention_rate) ==
    LET base == RInt(25)
        t == RMin(RInt(25), RMax(RInt(-25), Rat(trend, 2)))
        r == RMin(RInt(25), Rat(retention_rate, 4))
        growth_score == RAdd(RAdd(base, t), r)
    IN  RMax(RInt(0), RMin(RInt(100), growth_score))

GrowthScore(trend, retention_rate) ==
    LET base == RInt(50)
        t == RMin(RInt(25), RMax(RInt(-25), Rat(trend, 2)))
        r == RMin(RInt(25), Rat(retention_rate, 4))
        growth_score == RAdd(RAdd(base, t), r)
    IN  RMax(RInt(0), RMin(RInt(100), growth_score))

EngagementScore(active_users_7d, active_users_30d) ==
    IF active_users_30d > 0
    THEN RMul(Rat(active_users_7d, active_users_30d), RInt(100))
    ELSE RInt(0)

ChannelHealthScore(channel_activity) ==
    IF Len(channel_activity) > 0
    THEN LET total_msgs == SumCounts(channel_activity)
             entropy == Entropy(channel_activity, total_msgs)
             max_entropy == IF Len(channel_activity) > 1
                            THEN Log2(Len(channel_activity)) ELSE 1
         IN  IF max_entropy > 0
             THEN RMul(RMul(entropy, Rat(1, max_entropy)), RInt(100))
             ELSE RInt(50)
    ELSE RInt(0)

Metrics == <<"Activity", "Growth", "Engagement", "Channel Health">>

(* The weights with Activity and Growth exchanged. *)
Weight_swapped(metric) ==
    CASE metric = "Activity" -> Rat(25, 100)
      [] metric = "Growth" -> Rat(35, 100)
      [] metric = "Engagement" -> Rat(25, 100)
      [] metric = "Channel Health" -> Rat(15, 100)

(* weights: Activity 0.35, Growth 0.25, Engagement 0.25, Channel Health 0.15 *)
Weight(metric) ==
    CASE metric = "Activity" -> Rat(35, 100)
      [] metric = "Growth" -> Rat(25, 100)
      [] metric = "Engagement" -> Rat(25, 100)
      [] metric = "Channel Health" -> Rat(15, 100)

(* overall_score = sum(scores[metric] * weights[metric] for metric in scores) *)
RECURSIVE WeightedSum(_, _)
WeightedSum(scores, i) ==
    IF i > Len(Metrics) THEN <<0, 1>>
    ELSE RAdd(RMul(scores[Metrics[i]], Weight(Metrics[i])),
              WeightedSum(scores, i + 1))

OverallScore(scores) == WeightedSum(scores, 1)

(* The tier of the summary and of the priority line. *)
Tier(overall_score) ==
    IF RLeq(RInt(80), overall_score) THEN "excellent"
    ELSE IF RLeq(RInt(60), overall_score) THEN "good"
    ELSE IF RLeq(RInt(40), overall_score) THEN "moderate"
    ELSE "critical"

(* min(scores.items(), key=value): the first of the smallest, in dict order *)
LowestMetric(scores) ==
    Metrics[CHOOSE i \in 1..Len(Metrics) :
               /\ \A j \in 1..Len(Metrics) : RLeq(scores[Metrics[i]], scores[Metrics[j]])
               /\ \A j \in 1..(i - 1) : RLess(scores[Metrics[i]], scores[Metrics[j]])]

(* The comparison with <= in place of <. *)
Below_inclusive(score, threshold) == RLeq(score, RInt(threshold))

(* score < threshold, the test of every recommendation line *)
Below(score, threshold) == RLess(score, RInt(threshold))

Recommendations(scores, overall_score, trend, retention_rate, n_channels) ==
    (IF Below(overall_score, 80)
     THEN <<"priority_" \o Tier(overall_score)>> ELSE <<>>)
    \o (IF Below(scores["Activity"], 50) THEN <<"activity">> ELSE <<>>)
    \o (IF Below(scores["Growth"], 50)
        THEN (IF trend < -10 THEN <<"growth_trend">> ELSE <<>>)
             \o (IF retention_rate < 50 THEN <<"growth_retention">> ELSE <<>>)
        ELSE <<>>)
    \o (IF Below(scores["Engagement"], 50) THEN <<"engagement">> ELSE <<>>)
    \o (IF Below(scores["Channel Health"], 50)
        THEN (IF n_channels > 10
              THEN <<"channels_fragmented">> ELSE <<"channels_concentrated">>)
        ELSE <<>>)

(***************************************************************************)
(* The locals of a call whose six provider queries all answered.           *)
(***************************************************************************)
HealthLocals(db) ==
    LET messages_30d == db.message_count_30d
        active_users_30d == db.active_users_30d
        active_users_7d == db.active_users_7d
        trend == db.activity_trend
        join_leave == db.join_leave
        channel_activity == db.channel_activity
        confidence == calculate_confidence(messages_30d, 30).value
        scores == [m \in {Metrics[i] : i \in 1..Len(Metrics)} |->
                     CASE m = "Activity" ->
                            ActivityScore(messages_30d, active_users_30d)
                       [] m = "Growth" ->
                            GrowthScore(trend, join_leave.retention_rate)
                       [] m = "Engagement" ->
                            EngagementScore(active_users_7d, active_users_30d)
                       [] m = "Channel Health" ->
                            ChannelHealthScore(channel_activity)]
    IN  [scores |-> scores,
         overall_score |-> OverallScore(scores),
         confidence |-> confidence,
         low_confidence |-> RLess(confidence, <<1, 2>>)]

NoLocals == [scores |-> <<>>]

(***************************************************************************)
(* The whole call: six provider queries in order, none guarded, so the     *)
(* first that fails ends the call with its exception; then the result.     *)
(***************************************************************************)
calculate_health_score(db, fail) ==
    IF fail \in 1..6
    THEN Raise("ProviderError")
    ELSE
      LET l == HealthLocals(db)
      IN  Return([score |-> Round(l.overall_score),
                  metrics |-> [m \in DOMAIN l.scores |-> Round(l.scores[m])],
                  summary |-> [tier |-> Tier(l.overall_score),
                               score_context |-> Below(l.overall_score, 60),
                               data_quality |->
                                   IF l.low_confidence
                                   THEN Round(RMul(l.confidence, RInt(100)))
                                   ELSE -1],
                  recommendations |->
                      Recommendations(l.scores, l.overall_score,
                                      db.activity_trend,
                                      db.join_leave.retention_rate,
                                      Len(db.channel_activity)),
                  lowest_metric |-> LowestMetric(l.scores),
                  confidence |-> l.confidence,
                  low_confidence |-> l.low_confidence])

(***************************************************************************)
(* StatsProvider responses offered to calculate_health_score.  The six     *)
(* queries are separate awaits over different windows, answered one by one *)
(* while on_message keeps logging, so no answer is tied to another: the    *)
(* 7-day user count may exceed the 30-day count read before it, and the    *)
(* channel counts need not add up to the message count.                    *)
(***************************************************************************)
MaxUsers == 2

HealthMessageCounts == {0, 29, 87, 150, 300}

TrendValues == {-60, -20, -4, 0, 7, 60}

RetentionRates == {0, 6, 49, 50, 90, 100}

(* Per-channel message counts, in provider order; ids are the positions. *)
HealthChannelCounts ==
    { <<>>, <<4>>, <<2, 2>>, <<4, 0>>, <<1, 1, 1, 1>>, <<2, 1, 1, 0>>,
      <<2, 2, 0, 0>>, <<4, 2, 1, 1>>,
      <<8, 0, 0, 0, 0, 0, 0, 0, 0, 0, 0>>,
      <<1, 1, 1, 1, 1, 1, 1, 1, 1, 1, 1, 1, 1, 1, 1, 1>> }

ChannelActivity(counts) ==
    [i \in 1..Len(counts) |-> [channel_id |-> i, message_count |-> counts[i]]]

JoinLeave(retention_rate) ==
    [joins |-> IF retention_rate = 0 THEN 0 ELSE 20, leaves |-> 0,
     retention_rate |-> retention_rate]

HealthResponses ==
    { [message_count_30d |-> m, active_users_30d |-> u30,
       active_users_7d |-> u7, activity_trend |-> t,
       join_leave |-> JoinLeave(r), channel_activity |-> ChannelActivity(c)] :
        m \in HealthMessageCounts, u30 \in 0..MaxUsers, u7 \in 0..MaxUsers,
        t \in TrendValues, r \in RetentionRates, c \in HealthChannelCounts }

(***************************************************************************)
(* src/analytics/health_analyzer.py, HealthAnalyzer.calculate_health_score *)
(* and its helpers: tiered component scores, an overall score truncated by *)
(* int(), and a try/except around the whole body.                          *)
(***************************************************************************)
Tiered(x, t100, t80, t60, t40, t20) ==
    IF RLeq(RInt(t100), x) THEN 100
    ELSE IF RLeq(RInt(t80), x) THEN 80
    ELSE IF RLeq(RInt(t60), x) THEN 60
    ELSE IF RLeq(RInt(t40), x) THEN 40
    ELSE IF RLeq(RInt(t20), x) THEN 20
    ELSE 0

analytics_calculate_activity_score(message_stats) ==
    Tiered(Rat(message_stats.total_messages, 7), 100, 50, 20, 5, 1)

RECURSIVE SumUserMessages(_)
SumUserMessages(us) ==
    IF us = <<>> THEN 0 ELSE Head(us).message_count + SumUserMessages(Tail(us))

analytics_calculate_engagement_score(user_stats) ==
    IF user_stats = <<>> THEN 0
    ELSE Tiered(Rat(SumUserMessages(user_stats), Len(user_stats)), 20, 10, 5, 2, 1)

analytics_calculate_diversity_score(channel_stats) ==
    IF channel_stats = <<>> THEN 0
    ELSE Tiered(RInt(Len(channel_stats)), 10, 7, 5, 3, 1)

RECURSIVE SumHourly(_)
SumHourly(h) == IF h = <<>> THEN 0 ELSE Head(h)[2] + SumHourly(Tail(h))

analytics_calculate_consistency_score(message_stats) ==
    LET hourly_data == message_stats.hourly_data
    IN  IF hourly_data = <<>> THEN 0
        ELSE IF SumHourly(hourly_data) = 0 THEN 0
        ELSE Tiered(RInt(Len(hourly_data)), 12, 8, 6, 4, 2)

analytics_generate_recommendations(activity, engagement, diversity, consistency) ==
    LET recs == (IF activity < 50 THEN <<"activity">> ELSE <<>>)
                \o (IF engagement < 50 THEN <<"engagement">> ELSE <<>>)
                \o (IF diversity < 50 THEN <<"diversity">> ELSE <<>>)
                \o (IF consistency < 50 THEN <<"consistency">> ELSE <<>>)
    IN  IF recs = <<>> THEN <<"great_job">> ELSE recs

(* int(x) of a float: truncation toward zero; x >= 0 here. *)
IntTrunc(a) == IF a[1] >= 0 THEN a[1] \div a[2] ELSE -((-a[1]) \div a[2])

analytics_calculate_health_score(db, fail) ==
    IF fail \in 1..3
    THEN Return([score |-> 0,
                 summary |-> "Unable to calculate health score",
                 metrics |-> <<>>,
                 recommendations |-> <<"Check bot permissions and try again">>])
    ELSE
      LET activity_score == analytics_calculate_activity_score(db.message_stats)
          engagement_score == analytics_calculate_engagement_score(db.user_stats)
          diversity_score == analytics_calculate_diversity_score(db.channel_stats)
          consistency_score == analytics_calculate_consistency_score(db.message_stats)
          overall_score ==
              IntTrunc(RAdd(RAdd(RAdd(RMul(RInt(activity_score), Rat(3, 10)),
                                      RMul(RInt(engagement_score), Rat(3, 10))),
                                 RMul(RInt(diversity_score), Rat(2, 10))),
                            RMul(RInt(consistency_score), Rat(2, 10))))
          summary == IF overall_score >= 80 THEN "Excellent"
                     ELSE IF overall_score >= 60 THEN "Good"
                     ELSE IF overall_score >= 40 THEN "Moderate"
                     ELSE "Needs attention"
      IN  Return([score |-> overall_score,
                  summary |-> summary,
                  metrics |-> [Activity |-> activity_score,
                               Engagement |-> engagement_score,
                               Diversity |-> diversity_score,
                               Consistency |-> consistency_score],
                  recommendations |->
                      analytics_generate_recommendations(
                          activity_score, engagement_score,
                          diversity_score, consistency_score)])

(***************************************************************************)
(* StatsProvider responses of database/db_manager.py, the provider of the  *)
(* analytics package: get_message_stats, get_channel_stats, get_user_stats.*)
(***************************************************************************)
MaxPulseExtra == 5

PulseMessageCounts == 0..(5 * MaxDays + MaxPulseExtra)

(* h hours hold the m messages, most active first: rows (hour, count). *)
HourlyData(m, h) ==
    [i \in 1..h |-> <<13 + i, IF i = 1 THEN m - (h - 1) ELSE 1>>]

HourCounts == {1, 2, 4}

MessageStats ==
    { [total_messages |-> m, active_users |-> IF u <= m THEN u ELSE m,
       hourly_data |-> HourlyData(m, IF h <= m THEN h ELSE m)] :
        m \in PulseMessageCounts, u \in 1..2, h \in HourCounts }

(* Root-module provider answers for get_pulse: a window with no messages   *)
(* has no active users, and its trend is 0 or, after a busy window, -100.  *)
PulseTrends == {-100, 0, 30}

PulseResponses ==
    { [message_count |-> m,
       active_users |-> IF u <= m THEN u ELSE m,
       activity_trend |-> IF m = 0 /\ t > 0 THEN 0 ELSE t,
       peak_hours |-> IF m = 0 THEN <<>> ELSE <<14>>,
       quiet_channels |-> IF m = 0 THEN <<>> ELSE <<3>>] :
        m \in PulseMessageCounts, u \in 1..2, t \in PulseTrends }

(***************************************************************************)
(* src/analytics/channel_analyzer.py, ChannelAnalyzer.analyze_channels.    *)
(***************************************************************************)
(* A descending sort that puts equal keys in reverse order. *)
SortDesc_ties_reversed(s, keys) ==
    LET before(j) == { k \in 1..Len(s) :
                         \/ RLess(keys[j], keys[k])
                         \/ k > j /\ REq(keys[k], keys[j]) }
    IN  [i \in 1..Len(s) |->
            s[CHOOSE j \in 1..Len(s) : Cardinality(before(j)) = i - 1]]

(* A list left in the order of its appends. *)
SortDesc_unsorted(s, keys) == s

(* list.sort(key=..., reverse=True): descending and stable. *)
(* keys[i] is the sort key of s[i].                         *)
SortDesc(s, keys) ==
    LET before(j) == { k \in 1..Len(s) :
                         \/ RLess(keys[j], keys[k])
                         \/ k < j /\ REq(keys[k], keys[j]) }
    IN  [i \in 1..Len(s) |->
            s[CHOOSE j \in 1..Len(s) : Cardinality(before(j)) = i - 1]]

(* round(x, 1) *)
Round1(a) == Norm(<<Round(RMul(a, RInt(10))), 10>>)

(* The if / elif / elif chain of the loop: which append a channel reaches. *)
(* The first test without its floor of more than 10 messages. *)
ActiveBranch_no_floor(message_count, avg_messages) ==
    RLeq(avg_messages, RInt(message_count))

ActiveBranch(message_count, avg_messages) ==
    RLeq(avg_messages, RInt(message_count)) /\ message_count > 10

DeadBranch(message_count, avg_messages) ==
    /\ ~ActiveBranch(message_count, avg_messages)
    /\ message_count = 0

(* The third test with half the average as its threshold. *)
DecliningBranch_half(message_count, avg_messages) ==
    /\ ~ActiveBranch(message_count, avg_messages)
    /\ ~DeadBranch(message_count, avg_messages)
    /\ RLess(RInt(message_count), RMul(avg_messages, Rat(1, 2)))

(* The third test as an if of its own, outside the chain. *)
DecliningBranch_unchained(message_count, avg_messages) ==
    RLess(RInt(message_count), RMul(avg_messages, Rat(3, 10)))

DecliningBranch(message_count, avg_messages) ==
    /\ ~ActiveBranch(message_count, avg_messages)
    /\ ~DeadBranch(message_count, avg_messages)
    /\ RLess(RInt(message_count), RMul(avg_messages, Rat(3, 10)))

ActiveEntry(channel) ==
    [id |-> channel.channel_id,
     messages |-> channel.message_count,
     users |-> channel.unique_users,
     engagement |-> IF channel.message_count > 0
                    THEN Round1(RMul(Rat(channel.unique_users,
                                         channel.message_count), RInt(100)))
                    ELSE <<0, 1>>]

DeadEntry(channel, days) ==
    [id |-> channel.channel_id,
     messages |-> 0,
     days_inactive |-> days,
     last_activity |-> "No recent activity"]

DecliningEntry(channel, avg_messages) ==
    [id |-> channel.channel_id,
     messages |-> channel.message_count,
     decline_pct |-> IF RLess(<<0, 1>>, avg_messages)
                     THEN RMul(RMul(RAdd(avg_messages,
                                         RInt(-channel.message_count)),
                                    <<avg_messages[2], avg_messages[1]>>),
                               RInt(100))
                     ELSE <<0, 1>>,
     users |-> channel.unique_users]

RECURSIVE ActiveChannels(_, _)
ActiveChannels(channel_stats, avg_messages) ==
    IF channel_stats = <<>> THEN <<>>
    ELSE (IF ActiveBranch(Head(channel_stats).message_count, avg_messages)
          THEN <<ActiveEntry(Head(channel_stats))>> ELSE <<>>)
         \o ActiveChannels(Tail(channel_stats), avg_messages)

RECURSIVE DeadChannels(_, _, _)
DeadChannels(channel_stats, avg_messages, days) ==
    IF channel_stats = <<>> THEN <<>>
    ELSE (IF DeadBranch(Head(channel_stats).message_count, avg_messages)
          THEN <<DeadEntry(Head(channel_stats), days)>> ELSE <<>>)
         \o DeadChannels(Tail(channel_stats), avg_messages, days)

RECURSIVE DecliningChannels(_, _)
DecliningChannels(channel_stats, avg_messages) ==
    IF channel_stats = <<>> THEN <<>>
    ELSE (IF DecliningBranch(Head(channel_stats).message_count, avg_messages)
          THEN <<DecliningEntry(Head(channel_stats), avg_messages)>> ELSE <<>>)
         \o DecliningChannels(Tail(channel_stats), avg_messages)

ListCap == 10

(* A default without its declining list. *)
EmptyAnalysis_partial == [active |-> <<>>, dead |-> <<>>]

EmptyAnalysis == [active |-> <<>>, dead |-> <<>>, declining |-> <<>>]

analyze_channels(days, channel_stats, fail) ==
    IF fail = 1
    THEN Return(EmptyAnalysis)
    ELSE IF channel_stats = <<>>
    THEN Return(EmptyAnalysis)
    ELSE
      LET total_messages == SumCounts(channel_stats)
          avg_messages == Rat(total_messages, Len(channel_stats))
          active_unsorted == ActiveChannels(channel_stats, avg_messages)
          active_channels ==
              SortDesc(active_unsorted,
                       [i \in 1..Len(active_unsorted) |->
                           RInt(active_unsorted[i].messages)])
          dead_channels == DeadChannels(channel_stats, avg_messages, days)
          declining_unsorted == DecliningChannels(channel_stats, avg_messages)
          declining_channels ==
              SortDesc(declining_unsorted,
                       [i \in 1..Len(declining_unsorted) |->
                           declining_unsorted[i].decline_pct])
      IN  Return([active |-> Take(active_channels, ListCap),
                  dead |-> Take(dead_channels, ListCap),
                  declining |-> Take(declining_channels, ListCap)])

(***************************************************************************)
(* src/health_analyzer.py, HealthAnalyzer.generate_suggestions: four       *)
(* provider queries in order, none guarded, then five rules evaluated one  *)
(* after the other and a fallback.  A suggestion is its title and the      *)
(* number its description quotes (0 when it quotes none).                  *)
(***************************************************************************)
Suggestion(title, detail) == [title |-> title, detail |-> detail]

(* Pattern 1: Declining activity *)
DeclineRule(trend) == trend < -15

(* Pattern 2: Dead channels *)
NearlyInactive(channel_activity) ==
    Cardinality({i \in 1..Len(channel_activity) :
                    channel_activity[i].message_count < 5})

ConsolidateRule(channel_activity) == NearlyInactive(channel_activity) > 3

(* Pattern 3 without its test of the joins. *)
OnboardingRule_any_joins(join_leave) == join_leave.retention_rate < 60

(* Pattern 3: Poor retention *)
OnboardingRule(join_leave) ==
    join_leave.retention_rate < 60 /\ join_leave.joins > 10

(* Pattern 4: Timezone mismatch *)
TimingRule(peak_hours) == peak_hours # <<>>

(* Pattern 5 with its comparison turned round. *)
GrowthRule_below(trend) == trend < 25

(* Pattern 5: High growth *)
GrowthRule(trend) == trend > 25

Healthy == Suggestion("Server Looks Healthy", 0)

(* The general advice appended whatever the rules gave. *)
WithFallback_always(suggestions) == suggestions \o <<Healthy>>

(* The general advice given only to the first request served. *)
WithFallback_once(suggestions) ==
    IF Len(suggestions) = 0 /\ prev.op = "none" THEN <<Healthy>> ELSE suggestions

(* If no specific patterns, give general advice *)
WithFallback(suggestions) ==
    IF Len(suggestions) = 0 THEN <<Healthy>> ELSE suggestions

generate_suggestions(db, fail) ==
    IF fail \in 1..4
    THEN Raise("ProviderError")
    ELSE
      LET trend == db.activity_trend
          channel_activity == db.channel_activity
          join_leave == db.join_leave
          peak_hours == db.peak_hours
          suggestions ==
              (IF DeclineRule(trend)
               THEN <<Suggestion("Activity Decline Detected", Abs(trend))>>
               ELSE <<>>)
              \o (IF ConsolidateRule(channel_activity)
                  THEN <<Suggestion("Consolidate Channels",
                                    NearlyInactive(channel_activity))>>
                  ELSE <<>>)
              \o (IF OnboardingRule(join_leave)
                  THEN <<Suggestion("Improve Onboarding", join_leave.retention_rate)>>
                  ELSE <<>>)
              \o (IF TimingRule(peak_hours)
                  THEN <<Suggestion("Optimize Event Timing", peak_hours[1])>>
                  ELSE <<>>)
              \o (IF GrowthRule(trend)
                  THEN <<Suggestion("Capitalize on Growth", trend)>>
                  ELSE <<>>)
      IN  Return(WithFallback(suggestions))

(* StatsProvider responses offered to generate_suggestions: values on both *)
(* sides of every threshold of the rules.                                  *)
SuggestTrends == {-20, -16, -15, 0, 25, 26}

SuggestChannelCounts ==
    { <<>>, <<5, 5, 5, 5>>, <<4, 4, 4, 10>>, <<0, 4, 4, 4>>, <<0, 0, 1, 2, 3, 50>> }

SuggestRetentionRates == {59, 60, 90}

SuggestJoins == {5, 10, 11}

SuggestPeakHours == {<<>>, <<14>>, <<9, 14, 20>>}

SuggestResponses ==
    { [activity_trend |-> t,
       channel_activity |-> ChannelActivity(c),
       join_leave |-> [joins |-> j, leaves |-> 0, retention_rate |-> r],
       peak_hours |-> ph] :
        t \in SuggestTrends, c \in SuggestChannelCounts,
        r \in SuggestRetentionRates, j \in SuggestJoins, ph \in SuggestPeakHours }

(***************************************************************************)
(* src/analytics/contributor_analyzer.py, ContributorAnalyzer.             *)
(***************************************************************************)
calculate_engagement_rate(user) ==
    IF user.channels_used = 0 THEN 0
    ELSE LET avg_messages_per_channel == Rat(user.message_count, user.channels_used)
         IN  IF RLeq(RInt(10), avg_messages_per_channel) THEN 100
             ELSE IF RLeq(RInt(5), avg_messages_per_channel) THEN 80
             ELSE IF RLeq(RInt(2), avg_messages_per_channel) THEN 60
             ELSE IF RLeq(RInt(1), avg_messages_per_channel) THEN 40
             ELSE 20

(* The consistency ladder with > in place of >=. *)
calculate_consistency_strict(user) ==
    IF user.first_message = 0 \/ user.last_message = 0 THEN 50
    ELSE LET time_span == user.last_message - user.first_message
         IN  IF time_span > 14 THEN 100
             ELSE IF time_span > 7 THEN 80
             ELSE IF time_span > 3 THEN 60
             ELSE IF time_span > 1 THEN 40
             ELSE 20

calculate_consistency(user) ==
    IF user.first_message = 0 \/ user.last_message = 0 THEN 50
    ELSE LET time_span == user.last_message - user.first_message
         IN  IF time_span >= 14 THEN 100
             ELSE IF time_span >= 7 THEN 80
             ELSE IF time_span >= 3 THEN 60
             ELSE IF time_span >= 1 THEN 40
             ELSE 20

(* max(u['message_count'] for u in all_users) *)
RECURSIVE MaxMessageCount(_)
MaxMessageCount(all_users) ==
    IF Len(all_users) = 1 THEN all_users[1].message_count
    ELSE LET rest == MaxMessageCount(Tail(all_users))
         IN  IF all_users[1].message_count >= rest
             THEN all_users[1].message_count ELSE rest

(* max(u['channels_used'] for u in all_users) *)
RECURSIVE MaxChannelsUsed(_)
MaxChannelsUsed(all_users) ==
    IF Len(all_users) = 1 THEN all_users[1].channels_used
    ELSE LET rest == MaxChannelsUsed(Tail(all_users))
         IN  IF all_users[1].channels_used >= rest
             THEN all_users[1].channels_used ELSE rest

(* Base score from message count (0-40 points) *)
message_score(user, all_users) ==
    LET messages == user.message_count
        max_messages == IF all_users # <<>> THEN MaxMessageCount(all_users) ELSE 1
    IN  IF max_messages > 0
        THEN RMin(RInt(40), RMul(Rat(messages, max_messages), RInt(40)))
        ELSE RInt(0)

(* Channel diversity score (0-30 points) *)
channel_score(user, all_users) ==
    LET channels_used == user.channels_used
        max_channels == IF all_users # <<>> THEN MaxChannelsUsed(all_users) ELSE 1
    IN  IF max_channels > 0
        THEN RMin(RInt(30), RMul(Rat(channels_used, max_channels), RInt(30)))
        ELSE RInt(0)

(* Consistency score (0-20 points): the consistency tier * 0.2 *)
consistency_score(user) == Rat(calculate_consistency(user) * 2, 10)

(* The engagement tier taken as the score, without its factor. *)
engagement_score_unscaled(user) == RInt(calculate_engagement_rate(user))

(* Engagement quality score (0-10 points): the engagement tier * 0.1 *)
engagement_score(user) == Rat(calculate_engagement_rate(user), 10)

total_score(user, all_users) ==
    RAdd(RAdd(message_score(user, all_users), channel_score(user, all_users)),
         RAdd(consistency_score(user), engagement_score(user)))

calculate_contributor_score(user, all_users) ==
    Round1(total_score(user, all_users))

(* The locals of _calculate_contributor_score, for each user of the loop   *)
(* of get_top_contributors.                                                *)
ContributorLocals(user_stats) ==
    [scores |-> <<>>,
     sub_scores |->
         [i \in 1..Len(user_stats) |->
             [message_score |-> message_score(user_stats[i], user_stats),
              channel_score |-> channel_score(user_stats[i], user_stats),
              consistency_score |-> consistency_score(user_stats[i]),
              engagement_score |-> engagement_score(user_stats[i]),
              total_score |-> total_score(user_stats[i], user_stats)]]]

ContributorEntry(user, user_stats) ==
    [user_id |-> user.user_id,
     score |-> calculate_contributor_score(user, user_stats),
     messages |-> user.message_count,
     channels_used |-> user.channels_used,
     engagement |-> calculate_engagement_rate(user),
     consistency |-> calculate_consistency(user),
     first_message |-> user.first_message,
     last_message |-> user.last_message]

ContributorCap == 20

(* fail = 1: get_user_stats fails, and the except clause answers []. *)
get_top_contributors(days, user_stats, fail) ==
    IF fail = 1 THEN Return(<<>>)
    ELSE IF user_stats = <<>> THEN Return(<<>>)
    ELSE LET contributors ==
                 [i \in 1..Len(user_stats) |->
                     ContributorEntry(user_stats[i], user_stats)]
             sorted == SortDesc(contributors,
                                [i \in 1..Len(contributors) |-> contributors[i].score])
         IN  Return(Take(sorted, ContributorCap))

(***************************************************************************)
(* ContributorAnalyzer.analyze_contributor_trends: the user's row, the     *)
(* rank in the list get_top_contributors returns (0 when absent from it),  *)
(* and a score computed against a cohort of the user alone.  fail = 1: the *)
(* first get_user_stats fails and the except clause answers; fail = 2: the *)
(* one inside get_top_contributors fails, which answers [].                *)
(***************************************************************************)
FirstIndex(s, user_id) ==
    LET found == { i \in 1..Len(s) : s[i].user_id = user_id }
    IN  IF found = {} THEN 0
        ELSE CHOOSE i \in found : \A j \in found : i <= j

TrendOf(score) ==
    IF RLeq(RInt(80), score) THEN "excellent"
    ELSE IF RLeq(RInt(60), score) THEN "good"
    ELSE IF RLeq(RInt(40), score) THEN "moderate"
    ELSE "low"

analyze_contributor_trends(user_id, days, user_stats, fail) ==
    IF fail = 1
    THEN Return([trend |-> "error", score |-> <<0, 1>>, rank |-> 0])
    ELSE IF FirstIndex(user_stats, user_id) = 0
    THEN Return([trend |-> "no_data", score |-> <<0, 1>>, rank |-> 0])
    ELSE
      LET user_data == user_stats[FirstIndex(user_stats, user_id)]
          all_contributors ==
              get_top_contributors(days, user_stats, IF fail = 2 THEN 1 ELSE 0).value
          user_rank == FirstIndex(all_contributors, user_id)
          score == calculate_contributor_score(user_data, <<user_data>>)
      IN  Return([trend |-> TrendOf(score),
                  score |-> score,
                  rank |-> user_rank,
                  total_contributors |-> Len(all_contributors),
                  messages |-> user_data.message_count,
                  channels_used |-> user_data.channels_used])

(* The entry with 'high' only above 5 messages per day. *)
RisingEntry_strict(contributor, days) ==
    LET messages_per_day == Rat(contributor.messages, days)
    IN  [user_id |-> contributor.user_id,
         messages |-> contributor.messages,
         messages_per_day |-> Round1(messages_per_day),
         channels_used |-> contributor.channels_used,
         potential |-> IF RLess(RInt(5), messages_per_day) THEN "high" ELSE "medium"]

RisingEntry(contributor, days) ==
    LET messages_per_day == Rat(contributor.messages, days)
    IN  [user_id |-> contributor.user_id,
         messages |-> contributor.messages,
         messages_per_day |-> Round1(messages_per_day),
         channels_used |-> contributor.channels_used,
         potential |-> IF RLeq(RInt(5), messages_per_day) THEN "high" ELSE "medium"]

RECURSIVE RisingStars(_, _)
RisingStars(recent_contributors, days) ==
    IF recent_contributors = <<>> THEN <<>>
    ELSE (IF /\ RLeq(RInt(2), Rat(Head(recent_contributors).messages, days))
             /\ Head(recent_contributors).channels_used >= 2
          THEN <<RisingEntry(Head(recent_contributors), days)>> ELSE <<>>)
         \o RisingStars(Tail(recent_contributors), days)

RisingCap == 10

(* messages / days with days = 0 raises ZeroDivisionError for the first    *)
(* contributor of the loop, and the except clause answers [].              *)
identify_rising_stars(days, user_stats, fail) ==
    LET recent_contributors == get_top_contributors(days, user_stats, fail).value
    IN  IF recent_contributors # <<>> /\ days = 0 THEN Return(<<>>)
        ELSE LET rising_stars == RisingStars(recent_contributors, days)
                 sorted == SortDesc(rising_stars,
                                    [i \in 1..Len(rising_stars) |->
                                        rising_stars[i].messages_per_day])
             IN  Return(Take(sorted, RisingCap))

(***************************************************************************)
(* get_channel_stats answers: one row per channel id (GROUP BY), the ids   *)
(* being the positions.  Short lists of every shape, and lists longer than *)
(* the cap of the returned lists: a short head, then one count repeated.   *)
(***************************************************************************)
(* The messages table behind the provider, src/database/db_manager.py.     *)
(* A row is a message of one user; the model keeps, per user, how many of  *)
(* the rows are at most 7 days old (week) and how many are 8 to 30 days    *)
(* old (older).  on_message inserts a row dated now; the windows of the    *)
(* queries start at utcnow() - days, so rows grow older and leave them.    *)
(***************************************************************************)
Posters == {1, 2}
MaxLogged == 2

NoMessages == [u \in Posters |-> [week |-> 0, older |-> 0]]

RECURSIVE RowsOf(_, _, _)
RowsOf(m, days, S) ==
    IF S = {} THEN 0
    ELSE LET u == CHOOSE x \in S : TRUE
         IN  (IF days >= 30 THEN m[u].week + m[u].older ELSE m[u].week)
             + RowsOf(m, days, S \ {u})

(* The number of rows whose timestamp is in the window. *)
get_message_count(m, days) == RowsOf(m, days, Posters)

(* The number of distinct users with a row in the window. *)
get_active_users(m, days) ==
    Cardinality({ u \in Posters : RowsOf(m, days, {u}) > 0 })

(***************************************************************************)
(* Report requests in flight.  A slash command builds its own analyzer and *)
(* awaits the analyzer's coroutine; the coroutine is suspended at each     *)
(* provider query and keeps the answers in its local variables.  The last  *)
(* answer is followed by the computation and the return with no further    *)
(* suspension.                                                             *)
(***************************************************************************)
Requests == {1, 2}

Queries(operation) ==
    IF operation = "calculate_health_score"
    THEN <<"messages_30d", "active_users_30d", "active_users_7d",
           "trend", "join_leave", "channel_activity">>
    ELSE <<"total_messages", "active_members", "trend",
           "peak_hours", "quiet_channels">>

(* /pulse asks for its default window. *)
PulseDays == 7

(* The provider's answer to a query, read from the table as it is now.     *)
(* The table has no previous period and no member events: the trend is 0   *)
(* and nobody joined or left.  Every message is in channel 1.              *)
Answer(query, m) ==
    CASE query = "messages_30d" -> get_message_count(m, 30)
      [] query = "active_users_30d" -> get_active_users(m, 30)
      [] query = "active_users_7d" -> get_active_users(m, 7)
      [] query = "total_messages" -> get_message_count(m, PulseDays)
      [] query = "active_members" -> get_active_users(m, PulseDays)
      [] query = "trend" -> 0
      [] query = "join_leave" -> JoinLeave(0)
      [] query = "channel_activity" ->
             IF get_message_count(m, 30) = 0 THEN <<>>
             ELSE ChannelActivity(<<get_message_count(m, 30)>>)
      [] query = "peak_hours" ->
             IF get_message_count(m, PulseDays) = 0 THEN <<>> ELSE <<14>>
      [] query = "quiet_channels" -> <<>>

LocalNames ==
    {"messages_30d", "active_users_30d", "active_users_7d", "total_messages",
     "active_members", "trend", "join_leave", "channel_activity",
     "peak_hours", "quiet_channels"}

(* Local variables before any assignment (never read in that state). *)
NoFrame == [q \in LocalNames |-> Answer(q, NoMessages)]

NoTask == [op |-> "none", pc |-> 0, seen |-> NoFrame,
           ret |-> [outcome |-> "none"]]

(* One frame of local variables for all coroutines. *)
FrameOf_shared(i) == 1

(* The frame of local variables of the coroutine serving request i. *)
FrameOf(i) == i

(* What the coroutine computes from its local variables after the last     *)
(* answer.                                                                 *)
Compute(operation, f) ==
    IF operation = "calculate_health_score"
    THEN calculate_health_score(
             [message_count_30d |-> f["messages_30d"],
              active_users_30d |-> f["active_users_30d"],
              active_users_7d |-> f["active_users_7d"],
              activity_trend |-> f["trend"],
              join_leave |-> f["join_leave"],
              channel_activity |-> f["channel_activity"]], 0)
    ELSE get_pulse(PulseDays,
             [message_count |-> f["total_messages"],
              active_users |-> f["active_members"],
              activity_trend |-> f["trend"],
              peak_hours |-> f["peak_hours"],
              quiet_channels |-> f["quiet_channels"]], 0)

Finished(t) == t.op # "none" /\ t.pc = Len(Queries(t.op)) + 1

InFlight(t) == t.op # "none" /\ t.pc \in 2..Len(Queries(t.op))

(***************************************************************************)
MaxChannels == 4
MaxOverCap == 1

ChannelCounts == {0, 5, 12, 30, 100}

LongHeads == {<<>>, <<0>>, <<100>>}

LongCounts == {0, 1, 12}

ShortCountLists == UNION { [1..n -> ChannelCounts] : n \in 0..MaxChannels }

LongCountLists ==
    { h \o [i \in 1..(ListCap + k) |-> c] :
        h \in LongHeads, c \in LongCounts, k \in 1..MaxOverCap }

ChannelStats(counts) ==
    [i \in 1..Len(counts) |->
        [channel_id |-> i, message_count |-> counts[i],
         unique_users |-> IF counts[i] < 2 THEN counts[i] ELSE 2]]

ChannelStatsResponses ==
    { ChannelStats(c) : c \in ShortCountLists \cup LongCountLists }

(* get_user_stats rows.  A timestamp is the number of its day, from 1 on;  *)
(* 0 stands for an absent one (None).                                      *)
UserStat(id, m, c, first, last) ==
    [user_id |-> id, message_count |-> m, channels_used |-> c,
     first_message |-> first, last_message |-> last]

HealthUserStats ==
    { <<>>,
      <<UserStat(1, 20, 2, 1, 11)>>,
      <<UserStat(1, 5, 1, 3, 3), UserStat(2, 1, 1, 4, 4)>> }

(* get_user_stats answers for the contributor analyzer: rows of one user   *)
(* id each (GROUP BY), with at least one message in at least one channel,  *)
(* the first timestamp not after the last.  Short lists of every shape and *)
(* lists longer than the caps: a newcomer before many regulars of two      *)
(* channels, and a busy user of two channels before many steady regulars   *)
(* of one.                                                                 *)
MaxContributors == 2

ContributorMessages == {1, 4, 6, 15}

ContributorChannels == {1, 2}

ContributorSpans == {0, 7}

ContributorShapes ==
    { <<m, IF c <= m THEN c ELSE m, sp>> :
        m \in ContributorMessages, c \in ContributorChannels, sp \in ContributorSpans }

UserStats(shapes) ==
    [i \in 1..Len(shapes) |->
        UserStat(i, shapes[i][1], shapes[i][2], 1, 1 + shapes[i][3])]

(* Cohorts of one user, one for every tier of the two tier ladders: the    *)
(* analyzer takes whatever rows its provider hands it.                     *)
TierCounts == {<<0, 0>>, <<1, 2>>, <<1, 1>>, <<4, 2>>, <<10, 2>>, <<50, 5>>, <<100, 10>>}

TierTimestamps == {<<0, 0>>, <<1, 1>>, <<1, 2>>, <<1, 4>>, <<1, 8>>, <<1, 11>>, <<1, 15>>}

TierCohorts ==
    { <<UserStat(1, mc[1], mc[2], t[1], t[2])>> :
        mc \in TierCounts, t \in TierTimestamps }

UserStatsResponses ==
    TierCohorts \cup
    { UserStats(sh) :
        sh \in UNION { [1..n -> ContributorShapes] : n \in 0..MaxContributors } }
    \cup
    { UserStats([i \in 1..(ContributorCap + k) |->
                    IF i = 1 THEN <<1, 1, 0>> ELSE <<m, 2, 7>>]) :
        m \in {4, 15}, k \in 1..MaxOverCap }
    \cup
    { UserStats([i \in 1..(ContributorCap + k) |->
                    IF i = 1 THEN <<4, 2, 0>> ELSE <<15, 1, 7>>]) :
        k \in 1..MaxOverCap }

(* The users asked about: the first two, and the first beyond the cap. *)
TrendUserIds == {1, 2, ContributorCap + 1}

PulseChannelStats ==
    { ChannelStats(c) : c \in {<<>>, <<12, 5>>, <<100, 12, 5, 1>>} }

HealthFailResponses ==
    { db \in HealthResponses :
        /\ db.activity_trend = 0
        /\ db.join_leave.retention_rate = 50
        /\ db.channel_activity = <<>> }

Init ==
    /\ pc = "idle"
    /\ op = "none"
    /\ args = [days |-> 0]
    /\ locals = NoLocals
    /\ ret = [outcome |-> "none"]
    /\ prev = NoCall
    /\ messages_table = NoMessages
    /\ tasks = [i \in Requests |-> NoTask]
    /\ frames = [i \in Requests |-> NoFrame]
    /\ loops = <<>>
    /\ bot = [ready |-> 0, closed |-> FALSE, aggregated |-> FALSE]

(***************************************************************************)
(* A direct call of the confidence model.                                  *)
(***************************************************************************)
Confidence ==
    /\ pc = "idle"
    /\ \E message_count \in MessageCounts, days \in DaysArgs :
          /\ op' = "confidence"
          /\ args' = [message_count |-> message_count, days |-> days]
          /\ ret' = calculate_confidence(message_count, days)
    /\ pc' = "done"
    /\ UNCHANGED <<locals, prev, process>>

(***************************************************************************)
(* /health on src/health_analyzer.py: every query answers.  In args, fail  *)
(* names the provider query of the request that fails, 0 for none.         *)
(***************************************************************************)
HealthScore ==
    /\ pc = "idle"
    /\ \E db \in HealthResponses :
          /\ ExactEntropy(db.channel_activity)
          /\ op' = "calculate_health_score"
          /\ args' = [db |-> db, fail |-> 0]
          /\ locals' = HealthLocals(db)
          /\ ret' = calculate_health_score(db, 0)
    /\ pc' = "done"
    /\ UNCHANGED <<prev, process>>

(* One of the six queries of /health fails. *)
HealthScoreFails ==
    /\ pc = "idle"
    /\ \E db \in HealthFailResponses, fail \in 1..6 :
          /\ op' = "calculate_health_score"
          /\ args' = [db |-> db, fail |-> fail]
          /\ ret' = calculate_health_score(db, fail)
    /\ locals' = NoLocals
    /\ pc' = "done"
    /\ UNCHANGED <<prev, process>>

(***************************************************************************)
(* /health as bot.py serves it, on analytics/health_analyzer.py; fail      *)
(* names the failing query of its three, 0 for none.                       *)
(***************************************************************************)
AnalyticsHealthScore ==
    /\ pc = "idle"
    /\ \E ms \in MessageStats, cs \in PulseChannelStats,
          us \in HealthUserStats, fail \in 0..3 :
          LET db == [message_stats |-> ms, channel_stats |-> cs, user_stats |-> us]
          IN  /\ op' = "analytics_calculate_health_score"
              /\ args' = [db |-> db, fail |-> fail]
              /\ ret' = analytics_calculate_health_score(db, fail)
    /\ locals' = NoLocals
    /\ pc' = "done"
    /\ UNCHANGED <<prev, process>>

(***************************************************************************)
(* get_pulse of src/health_analyzer.py, for any window a caller passes.    *)
(***************************************************************************)
Pulse ==
    /\ pc = "idle"
    /\ \E days \in DaysArgs, db \in PulseResponses, fail \in 0..5 :
          /\ op' = "get_pulse"
          /\ args' = [days |-> days, db |-> db, fail |-> fail]
          /\ ret' = get_pulse(days, db, fail)
    /\ locals' = NoLocals
    /\ pc' = "done"
    /\ UNCHANGED <<prev, process>>

(***************************************************************************)
(* /pulse as bot.py serves it, on analytics/health_analyzer.py.            *)
(***************************************************************************)
AnalyticsPulse ==
    /\ pc = "idle"
    /\ \E days \in DaysArgs, ms \in MessageStats,
          cs \in PulseChannelStats, fail \in 0..2 :
          LET db == [message_stats |-> ms, channel_stats |-> cs]
          IN  /\ op' = "analytics_get_pulse"
              /\ args' = [days |-> days, db |-> db, fail |-> fail]
              /\ ret' = analytics_get_pulse(days, db, fail)
    /\ locals' = NoLocals
    /\ pc' = "done"
    /\ UNCHANGED <<prev, process>>

(***************************************************************************)
(* /channels: ChannelAnalyzer.analyze_channels.                            *)
(***************************************************************************)
AnalyzeChannels ==
    /\ pc = "idle"
    /\ \E days \in DaysArgs, cs \in ChannelStatsResponses, fail \in 0..1 :
          /\ op' = "analyze_channels"
          /\ args' = [days |-> days, channel_stats |-> cs, fail |-> fail]
          /\ ret' = analyze_channels(days, cs, fail)
    /\ locals' = NoLocals
    /\ pc' = "done"
    /\ UNCHANGED <<prev, process>>

(***************************************************************************)
(* /contributors: ContributorAnalyzer.get_top_contributors.                *)
(***************************************************************************)
TopContributors ==
    /\ pc = "idle"
    /\ \E days \in DaysArgs, us \in UserStatsResponses, fail \in 0..1 :
          /\ op' = "get_top_contributors"
          /\ args' = [days |-> days, user_stats |-> us, fail |-> fail]
          /\ ret' = get_top_contributors(days, us, fail)
          /\ locals' = IF fail = 0 THEN ContributorLocals(us) ELSE NoLocals
    /\ pc' = "done"
    /\ UNCHANGED <<prev, process>>

(* ContributorAnalyzer.analyze_contributor_trends. *)
AnalyzeContributorTrends ==
    /\ pc = "idle"
    /\ \E user_id \in TrendUserIds, days \in DaysArgs,
          us \in UserStatsResponses, fail \in 0..2 :
          /\ op' = "analyze_contributor_trends"
          /\ args' = [user_id |-> user_id, days |-> days,
                      user_stats |-> us, fail |-> fail]
          /\ ret' = analyze_contributor_trends(user_id, days, us, fail)
    /\ locals' = NoLocals
    /\ pc' = "done"
    /\ UNCHANGED <<prev, process>>

(* ContributorAnalyzer.identify_rising_stars. *)
IdentifyRisingStars ==
    /\ pc = "idle"
    /\ \E days \in DaysArgs, us \in UserStatsResponses, fail \in 0..1 :
          /\ op' = "identify_rising_stars"
          /\ args' = [days |-> days, user_stats |-> us, fail |-> fail]
          /\ ret' = identify_rising_stars(days, us, fail)
    /\ locals' = NoLocals
    /\ pc' = "done"
    /\ UNCHANGED <<prev, process>>

(***************************************************************************)
(* /suggest on src/health_analyzer.py; fail names the failing query of its *)
(* four, 0 for none.                                                       *)
(***************************************************************************)
GenerateSuggestions ==
    /\ pc = "idle"
    /\ \E db \in SuggestResponses, fail \in 0..4 :
          /\ op' = "generate_suggestions"
          /\ args' = [db |-> db, fail |-> fail]
          /\ ret' = generate_suggestions(db, fail)
    /\ locals' = NoLocals
    /\ pc' = "done"
    /\ UNCHANGED <<prev, process>>

(***************************************************************************)
(* The caller takes the result; nothing of the request is kept.            *)
(***************************************************************************)
Respond ==
    /\ pc = "done"
    /\ pc' = "idle"
    /\ op' = "none"
    /\ args' = [days |-> 0]
    /\ locals' = NoLocals
    /\ ret' = [outcome |-> "none"]
    /\ UNCHANGED <<prev, process>>

Next ==
    \/ Confidence
    \/ HealthScore
    \/ HealthScoreFails
    \/ AnalyticsHealthScore
    \/ Pulse
    \/ AnalyticsPulse
    \/ AnalyzeChannels
    \/ TopContributors
    \/ AnalyzeContributorTrends
    \/ IdentifyRisingStars
    \/ GenerateSuggestions
    \/ Respond

Spec == Init /\ [][Next]_vars

(***************************************************************************)
(* Two calls of the confidence model in a row: prev is a history variable  *)
(* that keeps the call just answered, so that two results can be compared. *)
(***************************************************************************)
RespondRemember ==
    /\ pc = "done"
    /\ prev' = [op |-> op, args |-> args, ret |-> ret]
    /\ pc' = "idle"
    /\ op' = "none"
    /\ args' = [days |-> 0]
    /\ locals' = NoLocals
    /\ ret' = [outcome |-> "none"]
    /\ UNCHANGED process

NextConfidence ==
    \/ Confidence
    \/ RespondRemember

SpecConfidence == Init /\ [][NextConfidence]_vars

(***************************************************************************)
(* The same request served twice: the operation answered last is called    *)
(* again with the arguments and the provider responses it had.             *)
(***************************************************************************)
Dispatch(operation, a) ==
    CASE operation = "confidence" -> calculate_confidence(a.message_count, a.days)
      [] operation = "calculate_health_score" -> calculate_health_score(a.db, a.fail)
      [] operation = "analytics_calculate_health_score" ->
             analytics_calculate_health_score(a.db, a.fail)
      [] operation = "get_pulse" -> get_pulse(a.days, a.db, a.fail)
      [] operation = "analytics_get_pulse" -> analytics_get_pulse(a.days, a.db, a.fail)
      [] operation = "analyze_channels" ->
             analyze_channels(a.days, a.channel_stats, a.fail)
      [] operation = "get_top_contributors" ->
             get_top_contributors(a.days, a.user_stats, a.fail)
      [] operation = "identify_rising_stars" ->
             identify_rising_stars(a.days, a.user_stats, a.fail)
      [] operation = "analyze_contributor_trends" ->
             analyze_contributor_trends(a.user_id, a.days, a.user_stats, a.fail)
      [] operation = "generate_suggestions" -> generate_suggestions(a.db, a.fail)

FirstCall ==
    /\ prev = NoCall
    /\ Next

Repeat ==
    /\ pc = "idle"
    /\ prev # NoCall
    /\ op' = prev.op
    /\ args' = prev.args
    /\ ret' = Dispatch(prev.op, prev.args)
    /\ locals' = NoLocals
    /\ pc' = "done"
    /\ UNCHANGED <<prev, process>>

NextRepeat ==
    \/ FirstCall
    \/ Repeat
    \/ RespondRemember

SpecRepeat == Init /\ [][NextRepeat]_vars

(***************************************************************************)
(* Report requests served concurrently while the bot keeps logging: the    *)
(* event loop switches between the coroutines at their awaits.             *)
(***************************************************************************)
request == <<pc, op, args, locals, ret, prev>>

(* /health or /pulse arrives: bot.py builds an analyzer and calls it. *)
StartRequest ==
    /\ \E i \in Requests, o \in {"calculate_health_score", "get_pulse"} :
          /\ tasks[i].op = "none"
          /\ tasks' = [tasks EXCEPT ![i] = [NoTask EXCEPT !.op = o, !.pc = 1]]
    /\ UNCHANGED <<request, messages_table, frames, loops, bot>>

(* The provider answers the query a coroutine awaits from the table as it  *)
(* is now; the coroutine assigns the answer to its local variable and runs *)
(* to its next await, or after the last answer to its return.              *)
AnswerQuery ==
    /\ \E i \in Requests :
          LET t == tasks[i]
          IN  /\ t.op # "none"
              /\ t.pc \in 1..Len(Queries(t.op))
              /\ LET q == Queries(t.op)[t.pc]
                     a == Answer(q, messages_table)
                     f == FrameOf(i)
                     frame == [frames[f] EXCEPT ![q] = a]
                     last == t.pc = Len(Queries(t.op))
                 IN  /\ frames' = [frames EXCEPT ![f] = frame]
                     /\ tasks' =
                          [tasks EXCEPT ![i] =
                              [t EXCEPT !.pc = @ + 1,
                                        !.seen[q] = a,
                                        !.ret = IF last THEN Compute(t.op, frame)
                                                ELSE @]]
    /\ UNCHANGED <<request, messages_table, loops, bot>>

(* The command takes the result; the coroutine and its locals are gone. *)
Deliver ==
    /\ \E i \in Requests :
          /\ Finished(tasks[i])
          /\ tasks' = [tasks EXCEPT ![i] = NoTask]
          /\ frames' = [frames EXCEPT ![FrameOf(i)] = NoFrame]
    /\ UNCHANGED <<request, messages_table, loops, bot>>

(* on_message: a row dated now. *)
LogMessage ==
    /\ get_message_count(messages_table, 30) < MaxLogged
    /\ \E u \in Posters :
          messages_table' = [messages_table EXCEPT ![u].week = @ + 1]
    /\ UNCHANGED <<request, tasks, frames, loops, bot>>

(* Time passes: a row leaves the 7-day window, or the 30-day window.  A    *)
(* request lasts a moment and a row ages over days: the windows move       *)
(* between requests.                                                       *)
WindowMoves ==
    /\ \A i \in Requests : tasks[i].op = "none"
    /\ \E u \in Posters :
          \/ /\ messages_table[u].week > 0
             /\ messages_table' = [messages_table EXCEPT ![u].week = @ - 1,
                                                         ![u].older = @ + 1]
          \/ /\ messages_table[u].older > 0
             /\ messages_table' = [messages_table EXCEPT ![u].older = @ - 1]
    /\ UNCHANGED <<request, tasks, frames, loops, bot>>

NextConcurrent ==
    \/ StartRequest
    \/ AnswerQuery
    \/ Deliver
    \/ LogMessage
    \/ WindowMoves

SpecConcurrent == Init /\ [][NextConcurrent]_vars

(***************************************************************************)
(* Background aggregation, bot.py.  on_ready creates an aggregate_metrics  *)
(* task each time the ready event fires, and the event fires again after a *)
(* reconnect whose session could not be resumed.  The task waits until the *)
(* bot is ready, then, while the bot is not closed, runs                   *)
(* aggregate_daily_metrics inside try/except and sleeps an hour.           *)
(***************************************************************************)
MaxReady == 2

NewLoop == [pc |-> "wait_until_ready", failed |-> FALSE]

(* on_ready: bot.loop.create_task(aggregate_metrics()) *)
OnReady ==
    /\ ~bot.closed
    /\ bot.ready < MaxReady
    /\ bot' = [bot EXCEPT !.ready = @ + 1]
    /\ loops' = Append(loops, NewLoop)
    /\ UNCHANGED <<request, messages_table, tasks, frames>>

(* await bot.wait_until_ready(), then the first test of the while. *)
LoopStart(l) ==
    /\ l \in 1..Len(loops)
    /\ loops[l].pc = "wait_until_ready"
    /\ bot.ready > 0
    /\ loops' = [loops EXCEPT ![l].pc = IF bot.closed THEN "exited"
                                        ELSE "aggregating"]
    /\ UNCHANGED <<request, messages_table, tasks, frames, bot>>

(* One cycle: aggregate_daily_metrics commits, or raises and the except    *)
(* clause prints the error; then the task sleeps.                          *)
Aggregate(l) ==
    /\ l \in 1..Len(loops)
    /\ loops[l].pc = "aggregating"
    /\ \/ /\ loops' = [loops EXCEPT ![l] = [pc |-> "sleeping", failed |-> FALSE]]
          /\ bot' = [bot EXCEPT !.aggregated = TRUE]
       \/ /\ loops' = [loops EXCEPT ![l] = [pc |-> "sleeping", failed |-> TRUE]]
          /\ UNCHANGED bot
    /\ UNCHANGED <<request, messages_table, tasks, frames>>

(* asyncio.sleep(3600) returns, and the while tests bot.is_closed(). *)
Wake(l) ==
    /\ l \in 1..Len(loops)
    /\ loops[l].pc = "sleeping"
    /\ loops' = [loops EXCEPT ![l].pc = IF bot.closed THEN "exited"
                                        ELSE "aggregating"]
    /\ UNCHANGED <<request, messages_table, tasks, frames, bot>>

(* The bot is closed. *)
Close ==
    /\ ~bot.closed
    /\ bot' = [bot EXCEPT !.closed = TRUE]
    /\ UNCHANGED <<request, messages_table, tasks, frames, loops>>

NextBot ==
    \/ OnReady
    \/ \E l \in 1..MaxReady : LoopStart(l)
    \/ \E l \in 1..MaxReady : Aggregate(l)
    \/ \E l \in 1..MaxReady : Wake(l)
    \/ LogMessage
    \/ Close

SpecBot == Init /\ [][NextBot]_vars

(* The event loop runs every task that can run: a task whose wait is over, *)
(* whose aggregation is under way or whose sleep has elapsed is resumed.   *)
SpecBotFair ==
    /\ SpecBot
    /\ \A l \in 1..MaxReady :
           WF_vars(LoopStart(l)) /\ WF_vars(Aggregate(l)) /\ WF_vars(Wake(l))

(***************************************************************************)
(* Properties of calculate_health_score (src/health_analyzer.py).          *)
(***************************************************************************)

(* C1, as stated: the returned overall score is the weighted sum of the    *)
(* four RETURNED component scores (Activity 0.35, Growth 0.25, Engagement  *)
(* 0.25, Channel Health 0.15), rounded to the nearest integer.             *)
C1_ScoreIsRoundedWeightedReturnedMetrics ==
    (pc = "done" /\ op = "calculate_health_score" /\ ret.outcome = "return") =>
        LET m == ret.value.metrics
        IN  ret.value.score =
                Round(<<35 * m["Activity"] + 25 * m["Growth"]
                        + 25 * m["Engagement"] + 15 * m["Channel Health"], 100>>)

(* C1, as the code has it: the returned overall score is the rounding of   *)
(* the weighted sum of the component scores BEFORE they are rounded; each  *)
(* returned component is the rounding of its own score; so the returned    *)
(* score is within 1 of the rounded weighted sum of the returned ones.     *)
C1_ScoreIsRoundedWeightedUnroundedScores ==
    (pc = "done" /\ op = "calculate_health_score" /\ ret.outcome = "return") =>
        LET s == locals.scores
            m == ret.value.metrics
            weighted ==
                RAdd(RAdd(RMul(<<35, 100>>, s["Activity"]),
                          RMul(<<25, 100>>, s["Growth"])),
                     RAdd(RMul(<<25, 100>>, s["Engagement"]),
                          RMul(<<15, 100>>, s["Channel Health"])))
            of_returned ==
                Round(<<35 * m["Activity"] + 25 * m["Growth"]
                        + 25 * m["Engagement"] + 15 * m["Channel Health"], 100>>)
        IN  /\ ret.value.score = Round(weighted)
            /\ \A k \in DOMAIN m : m[k] = Round(s[k])
            /\ ret.value.score - of_returned \in {-1, 0, 1}

(* A result whose score is not the rounded weighted sum of its components. *)
C1_Witness ==
    /\ pc = "done" /\ op = "calculate_health_score" /\ ret.outcome = "return"
    /\ LET m == ret.value.metrics
       IN  ret.value.score # 
               Round(<<35 * m["Activity"] + 25 * m["Growth"]
                       + 25 * m["Engagement"] + 15 * m["Channel Health"], 100>>)

(* C2: each of the four component scores returned (Activity, Growth,       *)
(* Engagement, Channel Health) lies in [0, 100].                           *)
C2_ComponentsInRange ==
    (pc = "done" /\ op = "calculate_health_score" /\ ret.outcome = "return") =>
        \A k \in DOMAIN ret.value.metrics :
            ret.value.metrics[k] >= 0 /\ ret.value.metrics[k] <= 100

(* C3: the summary is the tier of the RETURNED overall score: at least 80  *)
(* excellent, 60 to 79 good, 40 to 59 moderate, below 40 critical.         *)
C3_SummaryIsTierOfReturnedScore ==
    (pc = "done" /\ op = "calculate_health_score" /\ ret.outcome = "return") =>
        ret.value.summary.tier =
            (IF ret.value.score >= 80 THEN "excellent"
             ELSE IF ret.value.score >= 60 THEN "good"
             ELSE IF ret.value.score >= 40 THEN "moderate"
             ELSE "critical")

C5_ProviderFailureYieldsErrorResult ==
    (/\ pc = "done"
     /\ op \in {"calculate_health_score", "analytics_calculate_health_score"}
     /\ args.fail # 0) =>
        /\ ret.outcome = "return"
        /\ ret.value.score = 0
        /\ ret.value.summary = "Unable to calculate health score"

(***************************************************************************)
(* Properties of the confidence model and of get_pulse.                    *)
(***************************************************************************)

(* C6: for days > 0 the confidence is a value in [0, 1], it is 0 for 0     *)
(* messages and 1.0 for 10 * days messages, and it does not decrease when  *)
(* the message count grows (compared with the call answered just before,   *)
(* for the same days).                                                     *)
C6_ConfidenceMonotoneInUnitRange ==
    (pc = "done" /\ op = "confidence" /\ args.days > 0) =>
        /\ ret.outcome = "return"
        /\ 0 <= ret.value[1] /\ ret.value[1] <= ret.value[2]
        /\ args.message_count = 0 => ret.value[1] = 0
        /\ args.message_count = 10 * args.days => ret.value[1] = ret.value[2]
        /\ (/\ prev.op = "confidence"
            /\ prev.args.days = args.days
            /\ prev.args.message_count <= args.message_count)
               => prev.ret.value[1] * ret.value[2] <= ret.value[1] * prev.ret.value[2]

(* The target of 10 * days messages is met after a call below the target   *)
(* gave less than 1.0.                                                     *)
C6_Witness ==
    /\ pc = "done" /\ op = "confidence" /\ args.days > 0
    /\ args.message_count = 10 * args.days
    /\ ret.outcome = "return" /\ ret.value[1] = ret.value[2]
    /\ prev.op = "confidence" /\ prev.args.days = args.days
    /\ prev.args.message_count > 0
    /\ prev.args.message_count < args.message_count
    /\ prev.ret.value[1] < prev.ret.value[2]

(* C7: a call with days <= 0 is rejected with InvalidArgument, in the      *)
(* confidence model, get_pulse, analyze_channels, get_top_contributors and *)
(* identify_rising_stars.                                                  *)
C7_NonPositiveDaysRejected ==
    (/\ pc = "done"
     /\ op \in {"confidence", "get_pulse", "analytics_get_pulse",
                "analyze_channels", "get_top_contributors",
                "identify_rising_stars"}
     /\ args.days <= 0) =>
        ret = Raise("InvalidArgument")

(* C8: with every query answered and days > 0, get_pulse sets              *)
(* low_confidence exactly when total_messages < 5 * days (confidence below *)
(* 0.5); a community with no messages gives total_messages 0,              *)
(* active_members 0, trend 0 and low_confidence set (both variants of the  *)
(* analyzer).                                                              *)
C8_LowConfidenceIffBelowHalfTarget ==
    (/\ pc = "done"
     /\ op \in {"get_pulse", "analytics_get_pulse"}
     /\ args.days > 0
     /\ args.fail = 0) =>
        /\ ret.outcome = "return"
        /\ ret.value.low_confidence <=> (ret.value.total_messages < 5 * args.days)
        /\ ret.value.total_messages = 0 =>
               /\ ret.value.active_members = 0
               /\ ret.value.low_confidence
               /\ op = "analytics_get_pulse" => ret.value.trend = <<0, 1>>
               /\ (op = "get_pulse" /\ args.db.activity_trend = 0)
                      => ret.value.trend = 0

(***************************************************************************)
(* Properties of analyze_channels.                                         *)
(***************************************************************************)

(* C9: no channel id is in two of the lists active, declining and dead.    *)
C9_ListsPairwiseDisjoint ==
    (pc = "done" /\ op = "analyze_channels" /\ ret.outcome = "return") =>
        LET ids(list) == {list[i].id : i \in 1..Len(list)}
        IN  /\ ids(ret.value.active) \cap ids(ret.value.declining) = {}
            /\ ids(ret.value.active) \cap ids(ret.value.dead) = {}
            /\ ids(ret.value.declining) \cap ids(ret.value.dead) = {}

(* A result with channels in each of the three lists. *)
C9_Witness ==
    /\ pc = "done" /\ op = "analyze_channels" /\ ret.outcome = "return"
    /\ ret.value.active # <<>>
    /\ ret.value.declining # <<>>
    /\ ret.value.dead # <<>>

(* C10, as stated: every channel the provider reports with message_count 0 *)
(* is in the dead list, and in neither the active nor the declining list.  *)
C10_ZeroCountChannelsAreDead ==
    (/\ pc = "done" /\ op = "analyze_channels"
     /\ args.fail = 0 /\ ret.outcome = "return") =>
        LET ids(list) == {list[i].id : i \in 1..Len(list)}
            cs == args.channel_stats
        IN  \A i \in 1..Len(cs) :
                cs[i].message_count = 0 =>
                    /\ cs[i].channel_id \in ids(ret.value.dead)
                    /\ cs[i].channel_id \notin ids(ret.value.active)
                    /\ cs[i].channel_id \notin ids(ret.value.declining)

(* C10, as the code has it: a channel with message_count 0 is in neither   *)
(* the active nor the declining list, and it is in the dead list exactly   *)
(* when it is one of the first 10 such channels in the provider's order.   *)
C10_ZeroCountChannelsAreDeadUpToTen ==
    (/\ pc = "done" /\ op = "analyze_channels"
     /\ args.fail = 0 /\ ret.outcome = "return") =>
        LET ids(list) == {list[i].id : i \in 1..Len(list)}
            cs == args.channel_stats
            zeros_upto(i) == Cardinality({j \in 1..i : cs[j].message_count = 0})
        IN  /\ Len(ret.value.dead) <= 10
            /\ \A i \in 1..Len(cs) :
                   cs[i].message_count = 0 =>
                       /\ cs[i].channel_id \in ids(ret.value.dead)
                              <=> zeros_upto(i) <= 10
                       /\ cs[i].channel_id \notin ids(ret.value.active)
                       /\ cs[i].channel_id \notin ids(ret.value.declining)

(* Eleven channels without messages, ten of them in the dead list, beside  *)
(* an active channel.                                                      *)
C10_Witness ==
    /\ pc = "done" /\ op = "analyze_channels"
    /\ args.fail = 0 /\ ret.outcome = "return"
    /\ Cardinality({i \in 1..Len(args.channel_stats) :
                       args.channel_stats[i].message_count = 0}) = 11
    /\ Len(ret.value.dead) = 10
    /\ ret.value.active # <<>>

(* C11, as stated: with avg = total messages / number of channels, a       *)
(* channel is in the active list iff message_count >= avg and              *)
(* message_count > 10, in the dead list iff message_count = 0, in the      *)
(* declining list iff it is neither and message_count < 0.3 * avg, and in  *)
(* no list otherwise.                                                      *)
C11_ListsFollowRuleTable ==
    (/\ pc = "done" /\ op = "analyze_channels"
     /\ args.fail = 0 /\ ret.outcome = "return") =>
        LET ids(list) == {list[i].id : i \in 1..Len(list)}
            cs == args.channel_stats
            n == Len(cs)
            total == SumCounts(cs)
            active(c) == c * n >= total /\ c > 10
            dead(c) == c = 0
            declining(c) == ~active(c) /\ ~dead(c) /\ 10 * c * n < 3 * total
        IN  \A i \in 1..n :
                /\ cs[i].channel_id \in ids(ret.value.active)
                       <=> active(cs[i].message_count)
                /\ cs[i].channel_id \in ids(ret.value.dead)
                       <=> dead(cs[i].message_count)
                /\ cs[i].channel_id \in ids(ret.value.declining)
                       <=> declining(cs[i].message_count)

(* C11, as the code has it: a channel is in a list only if it matches the  *)
(* rule of that list; every channel matching a rule is in its list when at *)
(* most 10 channels match that rule, and otherwise exactly 10 of them are; *)
(* a channel matching no rule is in no list.                               *)
C11_ListsFollowRuleTableUpToTen ==
    (/\ pc = "done" /\ op = "analyze_channels"
     /\ args.fail = 0 /\ ret.outcome = "return") =>
        LET ids(list) == {list[i].id : i \in 1..Len(list)}
            cs == args.channel_stats
            n == Len(cs)
            total == SumCounts(cs)
            active(c) == c * n >= total /\ c > 10
            dead(c) == c = 0
            declining(c) == ~active(c) /\ ~dead(c) /\ 10 * c * n < 3 * total
            matching(rule(_)) == {cs[i].channel_id : i \in {j \in 1..n : rule(cs[j].message_count)}}
            upto10(k) == IF k <= 10 THEN k ELSE 10
        IN  /\ ids(ret.value.active) \subseteq matching(active)
            /\ ids(ret.value.dead) \subseteq matching(dead)
            /\ ids(ret.value.declining) \subseteq matching(declining)
            /\ Cardinality(ids(ret.value.active)) = upto10(Cardinality(matching(active)))
            /\ Cardinality(ids(ret.value.dead)) = upto10(Cardinality(matching(dead)))
            /\ Cardinality(ids(ret.value.declining))
                   = upto10(Cardinality(matching(declining)))

(* Counts [100, 0, 0, 5]: active is the channel at 100, dead the two at 0, *)
(* declining the one at 5.                                                 *)
C11_Witness ==
    /\ pc = "done" /\ op = "analyze_channels"
    /\ args.fail = 0 /\ ret.outcome = "return"
    /\ [i \in 1..Len(args.channel_stats) |-> args.channel_stats[i].message_count]
           = <<100, 0, 0, 5>>
    /\ [i \in 1..Len(ret.value.active) |-> ret.value.active[i].id] = <<1>>
    /\ [i \in 1..Len(ret.value.dead) |-> ret.value.dead[i].id] = <<2, 3>>
    /\ [i \in 1..Len(ret.value.declining) |-> ret.value.declining[i].id] = <<4>>

(* C12: each list of analyze_channels has at most 10 entries; active is    *)
(* sorted by message count, non-increasing; declining is sorted by the     *)
(* decline percentage (avg - count) / avg * 100, non-increasing; dead      *)
(* keeps the order in which the provider returned the channels.            *)
C12_ListsSortedAndCapped ==
    (/\ pc = "done" /\ op = "analyze_channels"
     /\ args.fail = 0 /\ ret.outcome = "return") =>
        LET active == ret.value.active
            dead == ret.value.dead
            declining == ret.value.declining
            cs == args.channel_stats
            n == Len(cs)
            total == SumCounts(cs)
            position(id) == CHOOSE i \in 1..n : cs[i].channel_id = id
        IN  /\ Len(active) <= 10 /\ Len(dead) <= 10 /\ Len(declining) <= 10
            /\ \A i \in 1..(Len(active) - 1) :
                   active[i].messages >= active[i + 1].messages
            /\ \A i \in 1..Len(declining) :
                   (* decline_pct = (avg - count) / avg * 100 *)
                   declining[i].decline_pct[1] * total
                       = (total - declining[i].messages * n) * 100
                             * declining[i].decline_pct[2]
            /\ \A i \in 1..(Len(declining) - 1) :
                   declining[i].decline_pct[1] * declining[i + 1].decline_pct[2]
                       >= declining[i + 1].decline_pct[1] * declining[i].decline_pct[2]
            /\ \A i \in 1..(Len(dead) - 1) :
                   position(dead[i].id) < position(dead[i + 1].id)

(* The active list differs from the provider's order, and two dead         *)
(* channels are listed.                                                    *)
C12_Witness ==
    /\ pc = "done" /\ op = "analyze_channels"
    /\ args.fail = 0 /\ ret.outcome = "return"
    /\ \E i \in 1..(Len(ret.value.active) - 1) :
           ret.value.active[i].id > ret.value.active[i + 1].id
    /\ Len(ret.value.dead) >= 2

(***************************************************************************)
(* Provider failures in the channel and contributor analyzers.             *)
(***************************************************************************)

(* C13: when the provider call fails, analyze_channels returns three empty *)
(* lists and get_top_contributors and identify_rising_stars return an      *)
(* empty list; the failure does not reach the caller and nothing else of   *)
(* the state changes.                                                      *)
C13_ProviderFailureYieldsSafeDefault ==
    (/\ pc = "done"
     /\ op \in {"analyze_channels", "get_top_contributors", "identify_rising_stars"}
     /\ args.fail # 0) =>
        /\ ret.outcome = "return"
        /\ ret.value = IF op = "analyze_channels"
                       THEN [active |-> <<>>, dead |-> <<>>, declining |-> <<>>]
                       ELSE <<>>
        /\ locals = NoLocals
        /\ prev = NoCall

(* The provider fails for a guild whose channels a working provider would  *)
(* have reported.                                                          *)
C13_Witness ==
    /\ pc = "done" /\ op = "analyze_channels"
    /\ args.fail = 1 /\ args.days > 0
    /\ Len(args.channel_stats) >= 2
    /\ ret = Return([active |-> <<>>, dead |-> <<>>, declining |-> <<>>])

(* C14: the value an operation returns after a provider failure is never   *)
(* equal to a value the same operation returns for a provider response     *)
(* that succeeded, so that a caller can tell the two apart.                *)
C14_DegradedResultIsDistinguishable ==
    (/\ pc = "done"
     /\ op \in {"analyze_channels", "get_top_contributors", "identify_rising_stars"}
     /\ args.fail # 0) =>
        CASE op = "analyze_channels" ->
                 \A cs \in ChannelStatsResponses :
                     ret # analyze_channels(args.days, cs, 0)
          [] op = "get_top_contributors" ->
                 \A us \in UserStatsResponses :
                     ret # get_top_contributors(args.days, us, 0)
          [] op = "identify_rising_stars" ->
                 \A us \in UserStatsResponses :
                     ret # identify_rising_stars(args.days, us, 0)

(***************************************************************************)
(* Properties of the contributor analyzer.                                 *)
(***************************************************************************)

(* C15: get_top_contributors returns the cohort sorted by composite score, *)
(* non-increasing, users of equal score in the provider's order, cut to    *)
(* the first 20 of that order.                                             *)
C15_TopContributorsStablySortedAndCapped ==
    (/\ pc = "done" /\ op = "get_top_contributors"
     /\ args.fail = 0 /\ ret.outcome = "return") =>
        LET top == ret.value
            us == args.user_stats
            n == Len(us)
            position(id) == CHOOSE i \in 1..n : us[i].user_id = id
            score(i) == calculate_contributor_score(us[i], us)
            ahead(a, sa, b, sb) == RLess(sb, sa) \/ (REq(sa, sb) /\ a < b)
            listed == {position(top[i].user_id) : i \in 1..Len(top)}
        IN  /\ Len(top) = (IF n <= 20 THEN n ELSE 20)
            /\ \A i \in 1..Len(top) :
                   /\ \E k \in 1..n : us[k].user_id = top[i].user_id
                   /\ REq(top[i].score, score(position(top[i].user_id)))
            /\ \A i \in 1..(Len(top) - 1) :
                   /\ RLeq(top[i + 1].score, top[i].score)
                   /\ ahead(position(top[i].user_id), top[i].score,
                            position(top[i + 1].user_id), top[i + 1].score)
            /\ \A k \in (1..n) \ listed :
                   \A i \in listed : ahead(i, score(i), k, score(k))

(* A cohort of 21: the 20 returned tie in score and keep the provider's    *)
(* order, and the provider's first user, who scores less, is cut.          *)
C15_Witness ==
    /\ pc = "done" /\ op = "get_top_contributors"
    /\ args.fail = 0 /\ ret.outcome = "return"
    /\ Len(args.user_stats) = 21
    /\ Len(ret.value) = 20
    /\ \A i \in 1..20 : ret.value[i].user_id = args.user_stats[i + 1].user_id
    /\ REq(ret.value[1].score, ret.value[2].score)

(* C16: for every user of a cohort the message score lies in [0, 40], the  *)
(* channel score in [0, 30], the consistency score in [0, 20] and the      *)
(* engagement score in [0, 10], so the composite score lies in [0, 100].   *)
C16_SubScoresWithinCaps ==
    (/\ pc = "done" /\ op = "get_top_contributors"
     /\ args.fail = 0 /\ ret.outcome = "return") =>
        LET within(x, cap) == 0 <= x[1] /\ x[1] <= cap * x[2]
        IN  /\ \A i \in 1..Len(locals.sub_scores) :
                   /\ within(locals.sub_scores[i].message_score, 40)
                   /\ within(locals.sub_scores[i].channel_score, 30)
                   /\ within(locals.sub_scores[i].consistency_score, 20)
                   /\ within(locals.sub_scores[i].engagement_score, 10)
                   /\ within(locals.sub_scores[i].total_score, 100)
            /\ \A i \in 1..Len(ret.value) : within(ret.value[i].score, 100)

(* A user at every cap at once, scoring 100. *)
C16_Witness ==
    /\ pc = "done" /\ op = "get_top_contributors"
    /\ args.fail = 0 /\ ret.outcome = "return"
    /\ Len(ret.value) = 1
    /\ REq(locals.sub_scores[1].message_score, RInt(40))
    /\ REq(locals.sub_scores[1].channel_score, RInt(30))
    /\ REq(locals.sub_scores[1].consistency_score, RInt(20))
    /\ REq(locals.sub_scores[1].engagement_score, RInt(10))
    /\ REq(ret.value[1].score, RInt(100))

(* C17: the composite score of a user is                                   *)
(*   min(40, messages / max_messages * 40)                                 *)
(*   + min(30, channels / max_channels * 30)                               *)
(*   + 0.2 * consistency tier (day span >= 14: 100, >= 7: 80, >= 3: 60,    *)
(*           >= 1: 40, else 20; a missing timestamp: 50)                   *)
(*   + 0.1 * engagement tier (messages per channel >= 10: 100, >= 5: 80,   *)
(*           >= 2: 60, >= 1: 40, else 20; no channels: 0)                  *)
(* rounded to one decimal, the maxima being taken over the cohort (a       *)
(* maximum of 0 gives a part of 0).                                        *)
C17_CompositeScoreFormula ==
    (/\ pc = "done" /\ op = "get_top_contributors"
     /\ args.fail = 0 /\ ret.outcome = "return") =>
        LET us == args.user_stats
            max_messages ==
                CHOOSE x \in {us[k].message_count : k \in 1..Len(us)} :
                    \A k \in 1..Len(us) : us[k].message_count <= x
            max_channels ==
                CHOOSE x \in {us[k].channels_used : k \in 1..Len(us)} :
                    \A k \in 1..Len(us) : us[k].channels_used <= x
            part(cap, x, max) ==
                IF max = 0 THEN <<0, 1>>
                ELSE IF x >= max THEN <<cap, 1>> ELSE <<cap * x, max>>
            span_tier(first, last) ==
                IF first = 0 \/ last = 0 THEN 50
                ELSE IF last - first >= 14 THEN 100
                ELSE IF last - first >= 7 THEN 80
                ELSE IF last - first >= 3 THEN 60
                ELSE IF last - first >= 1 THEN 40
                ELSE 20
            spread_tier(m, c) ==
                IF c = 0 THEN 0
                ELSE IF m >= 10 * c THEN 100
                ELSE IF m >= 5 * c THEN 80
                ELSE IF m >= 2 * c THEN 60
                ELSE IF m >= c THEN 40
                ELSE 20
            expected(u) ==
                Round1(RAdd(RAdd(part(40, u.message_count, max_messages),
                                 part(30, u.channels_used, max_channels)),
                            <<2 * span_tier(u.first_message, u.last_message)
                              + spread_tier(u.message_count, u.channels_used), 10>>))
        IN  \A i \in 1..Len(ret.value) :
                \E k \in 1..Len(us) :
                    /\ us[k].user_id = ret.value[i].user_id
                    /\ REq(ret.value[i].score, expected(us[k]))

(* One user with 50 messages in 5 channels over a span of 10 days: 96.0.   *)
C17_Witness ==
    /\ pc = "done" /\ op = "get_top_contributors"
    /\ args.fail = 0 /\ ret.outcome = "return"
    /\ Len(args.user_stats) = 1
    /\ args.user_stats[1].message_count = 50
    /\ args.user_stats[1].channels_used = 5
    /\ args.user_stats[1].first_message # 0
    /\ args.user_stats[1].last_message - args.user_stats[1].first_message = 10
    /\ REq(ret.value[1].score, <<96, 1>>)

C19_SuggestionsFollowRules ==
    (/\ pc = "done" /\ op = "generate_suggestions"
     /\ args.fail = 0 /\ ret.outcome = "return") =>
        LET sg == ret.value
            db == args.db
            has(title) == \E i \in 1..Len(sg) : sg[i].title = title
            low == {i \in 1..Len(db.channel_activity) :
                       db.channel_activity[i].message_count < 5}
            rule(title) ==
                CASE title = "Activity Decline Detected" -> 1
                  [] title = "Consolidate Channels" -> 2
                  [] title = "Improve Onboarding" -> 3
                  [] title = "Optimize Event Timing" -> 4
                  [] title = "Capitalize on Growth" -> 5
                  [] title = "Server Looks Healthy" -> 6
        IN  /\ has("Activity Decline Detected") <=> db.activity_trend < -15
            /\ has("Consolidate Channels") <=> Cardinality(low) > 3
            /\ has("Improve Onboarding")
                   <=> (db.join_leave.retention_rate < 60 /\ db.join_leave.joins > 10)
            /\ has("Optimize Event Timing") <=> Len(db.peak_hours) > 0
            /\ has("Capitalize on Growth") <=> db.activity_trend > 25
            /\ \A i \in 1..(Len(sg) - 1) : rule(sg[i].title) < rule(sg[i + 1].title)

(* trend -20, no channel below 5 messages, retention 90, 5 joins, peak     *)
(* hour 14: exactly the decline and the peak-hour suggestion.              *)
C19_Witness ==
    /\ pc = "done" /\ op = "generate_suggestions"
    /\ args.fail = 0 /\ ret.outcome = "return"
    /\ args.db.activity_trend = -20
    /\ \A i \in 1..Len(args.db.channel_activity) :
           args.db.channel_activity[i].message_count >= 5
    /\ args.db.join_leave.retention_rate = 90
    /\ args.db.join_leave.joins = 5
    /\ args.db.peak_hours = <<14>>
    /\ [i \in 1..Len(ret.value) |-> ret.value[i].title]
           = <<"Activity Decline Detected", "Optimize Event Timing">>

(* C20: the fallback 'looks healthy' suggestion is returned exactly when   *)
(* none of the rules 1 to 5 fires; it never comes with a rule suggestion,  *)
(* and the returned list is never empty.                                   *)
C20_FallbackIffNoRuleFires ==
    (/\ pc = "done" /\ op = "generate_suggestions"
     /\ args.fail = 0 /\ ret.outcome = "return") =>
        LET sg == ret.value
            db == args.db
            fallback == {i \in 1..Len(sg) : sg[i].title = "Server Looks Healthy"}
            low == {i \in 1..Len(db.channel_activity) :
                       db.channel_activity[i].message_count < 5}
            fires ==
                \/ db.activity_trend < -15
                \/ Cardinality(low) > 3
                \/ db.join_leave.retention_rate < 60 /\ db.join_leave.joins > 10
                \/ Len(db.peak_hours) > 0
                \/ db.activity_trend > 25
        IN  /\ Len(sg) > 0
            /\ fallback # {} <=> ~fires
            /\ fallback # {} => Len(sg) = 1

(* No rule fires although the retention is poor (too few joins), and the   *)
(* fallback is the whole list.                                             *)
C20_Witness ==
    /\ pc = "done" /\ op = "generate_suggestions"
    /\ args.fail = 0 /\ ret.outcome = "return"
    /\ args.db.join_leave.retention_rate < 60
    /\ args.db.join_leave.joins = 10
    /\ args.db.activity_trend = -15
    /\ Len(args.db.channel_activity) > 0
    /\ ret.value = <<[title |-> "Server Looks Healthy", detail |-> 0]>>

(* C21, as stated: a request for suggestions can be given a provider       *)
(* response for which the returned list holds the suggestions of all five  *)
(* rules.                                                                  *)
C21_AllFiveRulesMayFire ==
    pc = "idle" =>
        \E db \in SuggestResponses :
            LET sg == generate_suggestions(db, 0).value
            IN  \A title \in {"Activity Decline Detected", "Consolidate Channels",
                              "Improve Onboarding", "Optimize Event Timing",
                              "Capitalize on Growth"} :
                    \E i \in 1..Len(sg) : sg[i].title = title

(* C21, as the code has it: rules 1 and 5 test the same trend (< -15 and   *)
(* > 25), so their suggestions never come together and a returned list     *)
(* holds at most four rule suggestions; four do come together.             *)
C21_AtMostFourRulesFire ==
    (/\ pc = "done" /\ op = "generate_suggestions"
     /\ args.fail = 0 /\ ret.outcome = "return") =>
        LET sg == ret.value
            has(title) == \E i \in 1..Len(sg) : sg[i].title = title
        IN  /\ ~(has("Activity Decline Detected") /\ has("Capitalize on Growth"))
            /\ Len(sg) <= 4

(* Rules 1 to 4 fire together. *)
C21_Witness ==
    /\ pc = "done" /\ op = "generate_suggestions"
    /\ args.fail = 0 /\ ret.outcome = "return"
    /\ [i \in 1..Len(ret.value) |-> ret.value[i].title]
           = <<"Activity Decline Detected", "Consolidate Channels",
               "Improve Onboarding", "Optimize Event Timing">>

(***************************************************************************)
(* Properties of requests in sequence.                                     *)
(***************************************************************************)

C23_NoHistoryYieldsZeroValues ==
    (/\ pc = "done"
     /\ op \in {"calculate_health_score", "get_pulse", "analyze_channels",
                "get_top_contributors", "identify_rising_stars"}
     /\ args.fail = 0
     /\ CASE op = "calculate_health_score" ->
                 /\ args.db.message_count_30d = 0
                 /\ args.db.active_users_30d = 0
                 /\ args.db.active_users_7d = 0
                 /\ args.db.activity_trend = 0
                 /\ args.db.join_leave.joins = 0
                 /\ args.db.join_leave.leaves = 0
                 /\ args.db.join_leave.retention_rate = 0
                 /\ args.db.channel_activity = <<>>
          [] op = "get_pulse" ->
                 /\ args.days >= 1
                 /\ args.db.message_count = 0
                 /\ args.db.active_users = 0
                 /\ args.db.activity_trend = 0
          [] op = "analyze_channels" -> args.channel_stats = <<>>
          [] op \in {"get_top_contributors", "identify_rising_stars"} ->
                 args.user_stats = <<>>) =>
        /\ ret.outcome = "return"
        /\ CASE op = "calculate_health_score" ->
                    /\ ret.value.score = 0
                    /\ \A k \in DOMAIN ret.value.metrics : ret.value.metrics[k] = 0
             [] op = "get_pulse" ->
                    /\ ret.value.total_messages = 0
                    /\ ret.value.active_members = 0
                    /\ ret.value.trend = 0
             [] op = "analyze_channels" -> ret.value = EmptyAnalysis
             [] OTHER -> ret.value = <<>>

(***************************************************************************)
(* Properties of concurrent requests.                                      *)
(***************************************************************************)

(* C24: a request served while another is in flight returns what the same  *)
(* operation returns alone on the provider answers this request was given. *)
C24_ConcurrentRequestsIndependent ==
    \A i \in Requests :
        Finished(tasks[i]) =>
            tasks[i].ret = Compute(tasks[i].op, tasks[i].seen)

(* A health score finished while the other request, a health score too,    *)
(* is served with different numbers.                                       *)
C24_Witness ==
    /\ Finished(tasks[1])
    /\ tasks[1].op = "calculate_health_score"
    /\ tasks[2].op = "calculate_health_score"
    /\ tasks[2].pc >= 2
    /\ tasks[2].seen["messages_30d"] # tasks[1].seen["messages_30d"]
    /\ tasks[1].ret = Compute("calculate_health_score", tasks[1].seen)

(* C27: when messages are logged between the queries of one                *)
(* calculate_health_score call, the 7-day active-user count it reads never *)
(* exceeds the 30-day count it read before, and Engagement is at most 100. *)
C27_RecentUsersWithinMonthlyUsers ==
    \A i \in Requests :
        (Finished(tasks[i]) /\ tasks[i].op = "calculate_health_score") =>
            /\ tasks[i].seen["active_users_7d"] <= tasks[i].seen["active_users_30d"]
            /\ tasks[i].ret.value.metrics["Engagement"] <= 100

(***************************************************************************)
(* Properties of the pulse of analytics/health_analyzer.py.                *)
(***************************************************************************)

(* C25: the previous-period total of the analytics get_pulse is always     *)
(* zero, so the trend it reports is 0 whatever the provider answers.       *)
C25_AnalyticsTrendAlwaysZero ==
    (pc = "done" /\ op = "analytics_get_pulse") =>
        /\ get_previous_period_stats(args.days).total_messages = 0
        /\ ret.outcome = "return"
        /\ REq(ret.value.trend, RInt(0))

(* A busy window over a positive number of days, reported with trend 0. *)
C25_Witness ==
    /\ pc = "done"
    /\ op = "analytics_get_pulse"
    /\ args.fail = 0
    /\ args.days >= 1
    /\ args.db.message_stats.total_messages >= 10
    /\ ret.value.total_messages = args.db.message_stats.total_messages
    /\ REq(ret.value.trend, RInt(0))

(***************************************************************************)
(* Further properties of calculate_health_score.                           *)
(***************************************************************************)

(* C26: for a retention rate in 0..100 and any trend, whenever the Growth  *)
(* sub-score is below 50 (the score the code compares, or the rounded one  *)
(* it returns) the recommendations hold at least one Growth line.          *)
C26_LowGrowthHasGrowthRecommendation ==
    (/\ pc = "done" /\ op = "calculate_health_score" /\ ret.outcome = "return"
     /\ args.db.join_leave.retention_rate \in 0..100
     /\ \/ Below(locals.scores["Growth"], 50)
        \/ ret.value.metrics["Growth"] < 50) =>
        LET recs == ret.value.recommendations
        IN  \E i \in 1..Len(recs) : recs[i] \in {"growth_trend", "growth_retention"}

(* Growth below 50 with a retention of 50 or more: the trend line alone. *)
C26_Witness ==
    /\ pc = "done" /\ op = "calculate_health_score" /\ ret.outcome = "return"
    /\ args.db.join_leave.retention_rate >= 50
    /\ ret.value.metrics["Growth"] < 50
    /\ \E i \in 1..Len(ret.value.recommendations) :
           ret.value.recommendations[i] = "growth_trend"
    /\ \A i \in 1..Len(ret.value.recommendations) :
           ret.value.recommendations[i] # "growth_retention"

(***************************************************************************)
(* Further properties of the contributor analyzer.                         *)
(***************************************************************************)

(* C28: identify_rising_stars is complete: every user of the provider's    *)
(* answer with messages / days >= 2 and channels_used >= 2 is in the       *)
(* result whenever at most 10 users qualify, whatever their composite      *)
(* score.                                                                  *)
C28_RisingStarsComplete ==
    (/\ pc = "done" /\ op = "identify_rising_stars"
     /\ args.fail = 0
     /\ args.days >= 1) =>
        LET us == args.user_stats
            qualifying == { i \in 1..Len(us) :
                              /\ us[i].message_count >= 2 * args.days
                              /\ us[i].channels_used >= 2 }
        IN  Cardinality(qualifying) <= RisingCap =>
                /\ ret.outcome = "return"
                /\ \A i \in qualifying :
                       \E k \in 1..Len(ret.value) :
                           ret.value[k].user_id = us[i].user_id

(* C29: for a user present in the provider's stats,                        *)
(* analyze_contributor_trends reports the score get_top_contributors       *)
(* assigns that user over the same data, and a rank of at least 1.         *)
C29_TrendScoreAndRankMatchRanking ==
    (/\ pc = "done" /\ op = "analyze_contributor_trends"
     /\ args.fail = 0
     /\ FirstIndex(args.user_stats, args.user_id) # 0) =>
        LET us == args.user_stats
            user_data == us[FirstIndex(us, args.user_id)]
        IN  /\ ret.outcome = "return"
            /\ REq(ret.value.score, calculate_contributor_score(user_data, us))
            /\ ret.value.rank >= 1

(***************************************************************************)
(* Properties of the background aggregation.                               *)
(***************************************************************************)
(* The l-th task created, if there is one. *)
LoopAt(l) == IF l \in 1..Len(loops) THEN loops[l] ELSE [pc |-> "none", failed |-> FALSE]

RunningLoops == { l \in 1..Len(loops) : loops[l].pc # "exited" }

(* C30: while the bot is not closed, a cycle in which                      *)
(* aggregate_daily_metrics raised is followed by a further cycle, and at   *)
(* most one aggregation loop runs at any time, also when the ready event   *)
(* fires more than once.                                                   *)
C30_AggregationSurvivesFailureInOneLoop ==
    /\ [](Cardinality(RunningLoops) <= 1)
    /\ \A l \in 1..MaxReady :
           (/\ LoopAt(l).pc = "sleeping"
            /\ LoopAt(l).failed
            /\ ~bot.closed)
               ~> (bot.closed \/ LoopAt(l).pc = "aggregating")

====
